---------------------------- MODULE Spec2Model ----------------------------
(***************************************************************************)
(* Model of the data-access layer of midnight-explorer:                    *)
(*   - the connection manager            (src/src/lib/polkadot.ts)         *)
(*   - the Mock Generator / MockProvider (src/src/lib/data.ts)             *)
(*   - the indexer-backed HttpProvider   (src/src/lib/data.ts)             *)
(*   - the RPC-backed HttpProvider       (src/unnamed/part_003)            *)
(*                                                                         *)
(* Representation.  A JavaScript string is a sequence of one-character     *)
(* strings, so that parseInt, /^\d+$/ and charCodeAt can be computed.      *)
(* An optional value (T | undefined, T | null) is None or Some(v).  A       *)
(* result of parseInt is a record [nan, val].  A timestamp is an instant   *)
(* counted in minutes since 1970-01-01T00:00Z.                             *)
(***************************************************************************)
EXTENDS Integers, Sequences, FiniteSets, TLC

None == <<>>
Some(v) == <<v>>
IsSome(o) == o # <<>>
Val(o) == o[1]

-----------------------------------------------------------------------------
(* Strings                                                                 *)

Digits == <<"0", "1", "2", "3", "4", "5", "6", "7", "8", "9">>

DigitSet == {Digits[i] : i \in 1..10}

IsDigit(c) == c \in DigitSet

DigitVal(c) == CHOOSE d \in 0..9 : Digits[d + 1] = c

\* String.prototype.charCodeAt for the characters the model uses.
CharCode ==
  ("-" :> 45) @@
  ("0" :> 48) @@ ("1" :> 49) @@ ("2" :> 50) @@ ("3" :> 51) @@ ("4" :> 52) @@
  ("5" :> 53) @@ ("6" :> 54) @@ ("7" :> 55) @@ ("8" :> 56) @@ ("9" :> 57) @@
  ("a" :> 97) @@ ("b" :> 98) @@ ("c" :> 99) @@ ("d" :> 100) @@ ("e" :> 101) @@
  ("f" :> 102) @@ ("g" :> 103) @@ ("h" :> 104) @@ ("i" :> 105) @@ ("j" :> 106) @@
  ("k" :> 107) @@ ("l" :> 108) @@ ("m" :> 109) @@ ("n" :> 110) @@ ("o" :> 111) @@
  ("p" :> 112) @@ ("q" :> 113) @@ ("r" :> 114) @@ ("s" :> 115) @@ ("t" :> 116) @@
  ("u" :> 117) @@ ("v" :> 118) @@ ("w" :> 119) @@ ("x" :> 120) @@ ("y" :> 121) @@
  ("z" :> 122)

\* Number.prototype.toString() of an integer (radix 10).
RECURSIVE NatToString(_)
NatToString(n) ==
  IF n < 10 THEN <<Digits[n + 1]>>
  ELSE NatToString(n \div 10) \o <<Digits[(n % 10) + 1]>>

NumToString(n) == IF n < 0 THEN <<"-">> \o NatToString(-n) ELSE NatToString(n)

\* Number.prototype.toString(16) of 0..15.
HexDigit(n) == <<"0", "1", "2", "3", "4", "5", "6", "7", "8", "9",
                 "a", "b", "c", "d", "e", "f">>[n + 1]

\* /^\d+$/.test(s)
IsAllDigits(s) == Len(s) > 0 /\ \A i \in 1..Len(s) : IsDigit(s[i])

\* A parsed value beyond ParseCap is kept as ParseCap + 1: the model's
\* integers are 32 bits wide, a JavaScript number is a double, and no height
\* of the model comes near the cap.
ParseCap == 100000000

RECURSIVE ParseDigits(_, _, _)
ParseDigits(s, i, acc) ==
  IF acc > ParseCap \/ i > Len(s) \/ ~IsDigit(s[i]) THEN acc
  ELSE ParseDigits(s, i + 1,
         IF acc * 10 + DigitVal(s[i]) > ParseCap THEN ParseCap + 1
         ELSE acc * 10 + DigitVal(s[i]))

\* parseInt(s, 10): an optional sign, then the longest run of digits; NaN when
\* there is no digit.  (No string of the model starts with white space.)
ParseInt(s) ==
  LET neg == Len(s) > 0 /\ s[1] = "-"
      start == IF neg THEN 2 ELSE 1
  IN IF start > Len(s) \/ ~IsDigit(s[start])
     THEN [nan |-> TRUE, val |-> 0]
     ELSE [nan |-> FALSE,
           val |-> IF neg THEN -ParseDigits(s, start, 0) ELSE ParseDigits(s, start, 0)]

\* `cursor ? parseInt(cursor, 10) : 0` -- undefined and "" are falsy.
CursorOffset(cursor) ==
  IF cursor = None \/ Val(cursor) = <<>> THEN [nan |-> FALSE, val |-> 0]
  ELSE ParseInt(Val(cursor))

Min(a, b) == IF a < b THEN a ELSE b
Max(a, b) == IF a > b THEN a ELSE b

\* Math.max of a non-empty set of numbers.
Highest(S) == CHOOSE x \in S : \A y \in S : y <= x

\* Array.prototype.slice(start, end) with its relative-index clamping; a NaN
\* index is 0.
Slice(arr, start, end) ==
  LET n == Len(arr)
      s0 == IF start.nan THEN 0 ELSE start.val
      e0 == IF end.nan THEN 0 ELSE end.val
      from == IF s0 < 0 THEN Max(n + s0, 0) ELSE Min(s0, n)
      to == IF e0 < 0 THEN Max(n + e0, 0) ELSE Min(e0, n)
  IN IF to <= from THEN <<>> ELSE SubSeq(arr, from + 1, to)

\* a + b on parsed numbers (NaN is absorbing).
NumPlus(a, b) == [nan |-> a.nan, val |-> IF a.nan THEN 0 ELSE a.val + b]

\* Array.prototype.reverse
Reverse(arr) == [i \in 1..Len(arr) |-> arr[Len(arr) + 1 - i]]

-----------------------------------------------------------------------------
(* Mock Generator: seededRandom, generateMockBlock, generateMockTransaction *)

\* One round of the loop of seededRandom on the 32-bit value h, held as its
\* two unsigned 16-bit halves <<hi, lo>>:
\*   hash = ((hash << 5) - hash) + c;  hash |= 0      i.e. 31*hash + c mod 2^32
HashStep(h, c) ==
  LET t == 31 * h[2] + c
  IN <<(31 * h[1] + (t \div 65536)) % 65536, t % 65536>>

\* The loop of seededRandom from character i on, h being the value so far
\* (testing h at every round has it computed round by round, as the loop does).
RECURSIVE HashFold(_, _, _)
HashFold(seed, i, h) ==
  IF i > Len(seed) \/ h = <<>> THEN h
  ELSE HashFold(seed, i + 1, HashStep(h, CharCode[seed[i]]))

\* Math.abs(hash) % 1000000 of the int32 with halves <<hi, lo>>.
AbsMod(h) ==
  IF h[1] < 32768 THEN (h[1] * 65536 + h[2]) % 1000000
  ELSE LET m == ((((65536 - h[1]) * 256) % 1000000) * 256) % 1000000
       IN (m + 1000000 - h[2]) % 1000000

\* seededRandom(seed), in millionths: the code returns this value / 1000000.
seededRandom(seed) == AbsMod(HashFold(seed, 1, <<0, 0>>))

\* Math.floor(rand * 2000) in IEEE doubles is rand's millionths \div 500 except
\* at these twelve values, where the product rounds just below the integer.
Floor2000Low ==
  {500500, 501500, 502500, 503500, 504500, 505500,
   506500, 507500, 508500, 509500, 510500, 511500}

FloorTimes2000(k) == IF k \in Floor2000Low THEN (k \div 500) - 1 ELSE k \div 500

\* Civil date of a day number (days since 1970-01-01), as Date.toISOString()
\* prints it before the 'T'.
IsoDate(day) ==
  LET z == day + 719468
      era == z \div 146097
      doe == z - era * 146097
      yoe == (doe - (doe \div 1460) + (doe \div 36524) - (doe \div 146096)) \div 365
      doy == doe - (365 * yoe + (yoe \div 4) - (yoe \div 100))
      mp == (5 * doy + 2) \div 153
      d == doy - ((153 * mp + 2) \div 5) + 1
      m == IF mp < 10 THEN mp + 3 ELSE mp - 9
      y == yoe + era * 400 + (IF m <= 2 THEN 1 ELSE 0)
      pad2(n) == IF n < 10 THEN <<"0">> \o NatToString(n) ELSE NatToString(n)
  IN NatToString(y) \o <<"-">> \o pad2(m) \o <<"-">> \o pad2(d)

\* The 64-character fake hash derived from a seed.
FakeHash(seed) ==
  [i \in 1..64 |->
     HexDigit((seededRandom(seed \o <<"-">> \o NatToString(i - 1)) * 16) \div 1000000)]

\* generateMockBlock(height), constructed at instant `now` (new Date()).
generateMockBlock(height, now) ==
  LET date == now - height * 2
      seed == <<"b", "l", "o", "c", "k", "-">> \o NumToString(height)
                \o <<"-">> \o IsoDate(date \div 1440)
      rand == seededRandom(seed)
  IN [height |-> height, hash |-> FakeHash(seed), timestamp |-> date,
      txCount |-> ((rand * 20) \div 1000000) + 1]

\* Date.prototype.setMinutes(getMinutes() - (blockHeight || 0) * 2 - index * 0.1):
\* the argument is truncated toward zero.
TxDate(index, blockHeight, now) ==
  LET bh == IF blockHeight = None THEN 0 ELSE Val(blockHeight)
      tenths == 10 * (now % 60) - 20 * bh - index
      mins == IF tenths < 0 THEN -((-tenths) \div 10) ELSE tenths \div 10
  IN (now - (now % 60)) + mins

\* generateMockTransaction with a timestamp on every transaction.
generateMockTransaction_AlwaysStamped(index, blockHeight, now) ==
  LET date == TxDate(index, blockHeight, now)
      seed == <<"t", "x", "-">> \o NumToString(index) \o <<"-">> \o IsoDate(date \div 1440)
      rand == seededRandom(seed)
      confirmed == blockHeight # None /\ Val(blockHeight) # 0
  IN [hash |-> FakeHash(seed),
      status |-> IF confirmed THEN "success"
                 ELSE IF rand > 900000 THEN "failed" ELSE "pending",
      blockHeight |-> blockHeight,
      timestamp |-> Some(date),
      size |-> FloorTimes2000(rand) + 500]

\* generateMockTransaction(index, blockHeight), constructed at instant `now`.
generateMockTransaction(index, blockHeight, now) ==
  LET date == TxDate(index, blockHeight, now)
      seed == <<"t", "x", "-">> \o NumToString(index) \o <<"-">> \o IsoDate(date \div 1440)
      rand == seededRandom(seed)
      confirmed == blockHeight # None /\ Val(blockHeight) # 0
  IN [hash |-> FakeHash(seed),
      status |-> IF confirmed THEN "success"
                 ELSE IF rand > 900000 THEN "failed" ELSE "pending",
      blockHeight |-> blockHeight,
      timestamp |-> IF confirmed THEN Some(date) ELSE None,
      size |-> FloorTimes2000(rand) + 500]

-----------------------------------------------------------------------------
(* MockProvider                                                            *)

LatestHeight == 12345
MockBlockCount == 100
MockTxCount == 200
MockConfirmedCount == 160
PageSize == 20

\* The instants at which a provider can be constructed (new Date()).
StartInstant == 29892240      \* 2026-11-01T12:00Z
InstantStep == 1447           \* a day and seven minutes
NumInstants == 2

Instants == [i \in 1..NumInstants |-> StartInstant + (i - 1) * InstantStep]

\* new MockProvider() at instant `now`: the two corpora.
MockProvider(now) ==
  [mockBlocks |->
     [i \in 1..MockBlockCount |-> generateMockBlock(LatestHeight - (i - 1), now)],
   mockTransactions |->
     [i \in 1..MockTxCount |->
        generateMockTransaction(
          i - 1,
          IF i - 1 < MockConfirmedCount THEN Some(LatestHeight - ((i - 1) \div 4)) ELSE None,
          now)]]

\* The corpora are a function of the instant of construction alone, so the
\* state names an instance by that instant (an index into Instants) and the
\* instance's fields are read from this table, computed once.
RECURSIVE MockProviderTable(_)
MockProviderTable(n) ==
  IF n = 0 THEN <<>> ELSE Append(MockProviderTable(n - 1), MockProvider(Instants[n]))

MockProviders == MockProviderTable(NumInstants)

mockBlocks(p) == MockProviders[p].mockBlocks
mockTransactions(p) == MockProviders[p].mockTransactions

Page(items, nextCursor) == [items |-> items, nextCursor |-> nextCursor]

\* Array.prototype.find, then `|| null`.
Find(arr, test(_)) ==
  LET hits == SelectSeq(arr, test) IN IF hits = <<>> THEN None ELSE Some(hits[1])

\* MockPage with `<=` for `<` in the test that sets nextCursor: a page that ends
\* exactly at the end of the list would still carry a nextCursor.
MockPage_OffByOne(list, cursor) ==
  LET cursorIndex == CursorOffset(cursor)
      items == Slice(list, cursorIndex, NumPlus(cursorIndex, PageSize))
      more == ~cursorIndex.nan /\ cursorIndex.val + PageSize <= Len(list)
  IN Page(items, IF more THEN Some(NumToString(cursorIndex.val + PageSize)) ELSE None)

\* The paging shared by the three paged operations of MockProvider:
\*   items = list.slice(cursorIndex, cursorIndex + pageSize)
\*   nextCursor = cursorIndex + pageSize < list.length ? String(...) : undefined
MockPage(list, cursor) ==
  LET cursorIndex == CursorOffset(cursor)
      items == Slice(list, cursorIndex, NumPlus(cursorIndex, PageSize))
      more == ~cursorIndex.nan /\ cursorIndex.val + PageSize < Len(list)
  IN Page(items, IF more THEN Some(NumToString(cursorIndex.val + PageSize)) ELSE None)

MockGetLatestBlocks(p, limit) ==
  Slice(mockBlocks(p), [nan |-> FALSE, val |-> 0], [nan |-> FALSE, val |-> limit])

MockGetLatestTransactions(p, limit) ==
  Slice(mockTransactions(p), [nan |-> FALSE, val |-> 0], [nan |-> FALSE, val |-> limit])

MockGetBlocksPage(p, cursor) == MockPage(mockBlocks(p), cursor)

\* `const height = parseInt(id, 10); if (!isNaN(height))`: the id is taken as a height.
MockIdIsHeight(id) == ~ParseInt(id).nan

MockGetBlockByHashOrHeight(p, id) ==
  IF MockIdIsHeight(id)
  THEN LET height == ParseInt(id).val
           byHeight(b) == b.height = height
       IN Find(mockBlocks(p), byHeight)
  ELSE LET byHash(b) == b.hash = id
       IN Find(mockBlocks(p), byHash)

MockGetTransactionsPage(p, cursor) == MockPage(mockTransactions(p), cursor)

MockGetTransactionByHash(p, hash) ==
  LET byHash(t) == t.hash = hash IN Find(mockTransactions(p), byHash)

\* getBlockTransactions that pages from the start whatever the cursor.
MockGetBlockTransactions_IgnoresCursor(p, id, cursor) ==
  LET byHash(b) == b.hash = id
      block == Find(mockBlocks(p), byHash)
      height == IF MockIdIsHeight(id) THEN Some(ParseInt(id).val)
                ELSE IF block = None THEN None ELSE Some(Val(block).height)
      inBlock(tx) == tx.blockHeight = height
  IN IF height = None THEN Page(<<>>, None)
     ELSE MockPage(SelectSeq(mockTransactions(p), inBlock), None)

\* getBlockTransactions(id, cursor)
MockGetBlockTransactions(p, id, cursor) ==
  LET byHash(b) == b.hash = id
      block == Find(mockBlocks(p), byHash)
      height == IF MockIdIsHeight(id) THEN Some(ParseInt(id).val)
                ELSE IF block = None THEN None ELSE Some(Val(block).height)
      inBlock(tx) == tx.blockHeight = height
  IN IF height = None THEN Page(<<>>, None)
     ELSE MockPage(SelectSeq(mockTransactions(p), inBlock), cursor)

\* Math.floor(rand * 10000) in IEEE doubles is rand's millionths \div 100
\* except where the millionths are 100 times one of these values: there the
\* product rounds just below the integer.
Floor10000Low ==
  {3, 6, 12, 24, 29, 48, 58, 93, 96, 113, 116, 163, 169, 186, 192, 209,
   215, 226, 232, 249, 255, 321, 326, 338, 355, 372, 384, 389, 401, 418,
   430, 435, 447, 452, 464, 481, 493, 498, 510, 642, 647, 652, 676, 681,
   705, 710, 715, 739, 744, 768, 773, 778, 797, 802, 807, 831, 836, 841,
   860, 865, 870, 894, 899, 904, 923, 928, 933, 957, 962, 967, 986, 991,
   996, 1020, 1284, 1289, 1294, 1299, 1304, 1309, 1347, 1352, 1357, 1362,
   1367, 1410, 1415, 1420, 1425, 1430, 1473, 1478, 1483, 1488, 1493, 1536,
   1541, 1546, 1551, 1556, 1594, 1599, 1604, 1609, 1614, 1619, 1657, 1662,
   1667, 1672, 1677, 1682, 1720, 1725, 1730, 1735, 1740, 1745, 1783, 1788,
   1793, 1798, 1803, 1808, 1846, 1851, 1856, 1861, 1866, 1871, 1909, 1914,
   1919, 1924, 1929, 1934, 1972, 1977, 1982, 1987, 1992, 2035, 2040, 2045,
   2563, 2568, 2573, 2578, 2583, 2588, 2593, 2598, 2603, 2608, 2613, 2618,
   2689, 2694, 2699, 2704, 2709, 2714, 2719, 2724, 2729, 2734, 2739, 2815,
   2820, 2825, 2830, 2835, 2840, 2845, 2850, 2855, 2860, 2865, 2941, 2946,
   2951, 2956, 2961, 2966, 2971, 2976, 2981, 2986, 2991, 3067, 3072, 3077,
   3082, 3087, 3092, 3097, 3102, 3107, 3112, 3117, 3188, 3193, 3198, 3203,
   3208, 3213, 3218, 3223, 3228, 3233, 3238, 3243, 3314, 3319, 3324, 3329,
   3334, 3339, 3344, 3349, 3354, 3359, 3364, 3440, 3445, 3450, 3455, 3460,
   3465, 3470, 3475, 3480, 3485, 3490, 3566, 3571, 3576, 3581, 3586, 3591,
   3596, 3601, 3606, 3611, 3616, 3692, 3697, 3702, 3707, 3712, 3717, 3722,
   3727, 3732, 3737, 3742, 3813, 3818, 3823, 3828, 3833, 3838, 3843, 3848,
   3853, 3858, 3863, 3868, 3939, 3944, 3949, 3954, 3959, 3964, 3969, 3974,
   3979, 3984, 3989, 4065, 4070, 4075, 4080, 4085, 4090, 4095, 5005, 5015,
   5025, 5035, 5045, 5055, 5065, 5075, 5085, 5095, 5105, 5126, 5136, 5146,
   5156, 5166, 5176, 5186, 5196, 5206, 5216, 5226, 5236, 5257, 5267, 5277,
   5287, 5297, 5307, 5317, 5327, 5337, 5347, 5357, 5378, 5388, 5398, 5408,
   5418, 5428, 5438, 5448, 5458, 5468, 5478, 5509, 5519, 5529, 5539, 5549,
   5559, 5569, 5579, 5589, 5599, 5609, 5630, 5640, 5650, 5660, 5670, 5680,
   5690, 5700, 5710, 5720, 5730, 5751, 5761, 5771, 5781, 5791, 5801, 5811,
   5821, 5831, 5841, 5851, 5861, 5882, 5892, 5902, 5912, 5922, 5932, 5942,
   5952, 5962, 5972, 5982, 6003, 6013, 6023, 6033, 6043, 6053, 6063, 6073,
   6083, 6093, 6103, 6134, 6144, 6154, 6164, 6174, 6184, 6194, 6204, 6214,
   6224, 6234, 6255, 6265, 6275, 6285, 6295, 6305, 6315, 6325, 6335, 6345,
   6355, 6376, 6386, 6396, 6406, 6416, 6426, 6436, 6446, 6456, 6466, 6476,
   6486, 6507, 6517, 6527, 6537, 6547, 6557, 6567, 6577, 6587, 6597, 6607,
   6628, 6638, 6648, 6658, 6668, 6678, 6688, 6698, 6708, 6718, 6728, 6759,
   6769, 6779, 6789, 6799, 6809, 6819, 6829, 6839, 6849, 6859, 6880, 6890,
   6900, 6910, 6920, 6930, 6940, 6950, 6960, 6970, 6980, 7001, 7011, 7021,
   7031, 7041, 7051, 7061, 7071, 7081, 7091, 7101, 7111, 7132, 7142, 7152,
   7162, 7172, 7182, 7192, 7202, 7212, 7222, 7232, 7253, 7263, 7273, 7283,
   7293, 7303, 7313, 7323, 7333, 7343, 7353, 7384, 7394, 7404, 7414, 7424,
   7434, 7444, 7454, 7464, 7474, 7484, 7505, 7515, 7525, 7535, 7545, 7555,
   7565, 7575, 7585, 7595, 7605, 7626, 7636, 7646, 7656, 7666, 7676, 7686,
   7696, 7706, 7716, 7726, 7736, 7757, 7767, 7777, 7787, 7797, 7807, 7817,
   7827, 7837, 7847, 7857, 7878, 7888, 7898, 7908, 7918, 7928, 7938, 7948,
   7958, 7968, 7978, 8009, 8019, 8029, 8039, 8049, 8059, 8069, 8079, 8089,
   8099, 8109, 8130, 8140, 8150, 8160, 8170, 8180, 8190}

FloorTimes10000(k) ==
  IF k % 100 = 0 /\ (k \div 100) \in Floor10000Low THEN (k \div 100) - 1 ELSE k \div 100

\* Math.floor(rand * 50) in IEEE doubles: 0.58 * 50 is 28.999999999999996.
FloorTimes50(k) == IF k = 580000 THEN 28 ELSE (k * 50) \div 1000000

\* getAddressSummary seeded with the instance's day of construction as well,
\* as the generators of the corpora are.
MockGetAddressSummary_Dated(p, addr) ==
  LET seed == NatToString(Instants[p] \div 1440) \o <<"-", "a", "d", "d", "r", "-">> \o addr
      rand == seededRandom(seed)
  IN Some([address |-> addr, balance |-> Some(FloorTimes10000(rand)),
           txCount |-> Some(FloorTimes50(rand) + 1)])

\* getAddressSummary: the balance is held in hundredths (the code divides by
\* 100 and prints the quotient).
MockGetAddressSummary(p, addr) ==
  LET seed == <<"a", "d", "d", "r", "-">> \o addr
      rand == seededRandom(seed)
  IN Some([address |-> addr, balance |-> Some(FloorTimes10000(rand)),
           txCount |-> Some(FloorTimes50(rand) + 1)])

-----------------------------------------------------------------------------
(* State                                                                   *)

VARIABLES
  apiInstance,        \* polkadot.ts: the cached handle, None when null
  disconnectHandler,  \* polkadot.ts: the registered closure, None when null
  handles,            \* every handle created so far: state and attached listeners
  pc,                 \* where each getApi() call stands
  env,                \* env.ts: which endpoints are configured
  clock,              \* index into Instants of the current instant
  providers,          \* the provider instances built by getProvider()
  indexer,            \* the indexer's collections (environment)
  tip,                \* the node's finalized height (environment)
  chain,              \* the node's blocks (environment)
  call,               \* the last completed operation, and the paging chain it ends
  probe               \* where a tryQueries call stands, and what it has done

vars == <<apiInstance, disconnectHandler, handles, pc, env, clock, providers,
          indexer, tip, chain, call, probe>>

connVars == <<apiInstance, disconnectHandler, handles, pc>>
nodeVars == <<tip, chain>>

PagedOps == {"getBlocksPage", "getTransactionsPage", "getBlockTransactions"}

\* No tryQueries call is under way.
NoProbe ==
  [at |-> "idle", k |-> 0, responses |-> <<>>, issued |-> <<>>, seen |-> <<>>,
   result |-> [t |-> "null", v |-> 0], fellBack |-> FALSE]

NoCall ==
  [backend |-> "none", op |-> "none", inst |-> 0, id |-> <<>>, cursor |-> None,
   limit |-> 0, resolvedAs |-> "none", rejected |-> FALSE, result |-> <<>>,
   source |-> "none", io |-> [answered |-> 0, kind |-> "none"],
   chainFrom |-> None, chainItems |-> <<>>, chainCalls |-> 0,
   chainSources |-> {}, chainKinds |-> {}]

\* One request is observed at a time: an operation starts either when none is
\* under observation, or as the next call of a paging chain: the same
\* operation on the same instance and id, with the nextCursor just returned.
CanFollow(backend, op, inst, id) ==
  /\ call.backend = backend /\ call.op = op /\ call.inst = inst /\ call.id = id
  /\ ~call.rejected
  /\ call.result.nextCursor # None

\* The record of a completed operation.  `source` tells where the result came
\* from ("mock", "indexer", "node"), `io` what the backing service did, and
\* `follow` that the call continues the chain.
Completed(backend, op, inst, id, cursor, limit, resolvedAs, rejected, result,
          source, io, follow) ==
  LET paged == op \in PagedOps /\ ~rejected
  IN [backend |-> backend, op |-> op, inst |-> inst, id |-> id, cursor |-> cursor,
      limit |-> limit, resolvedAs |-> resolvedAs, rejected |-> rejected,
      result |-> result, source |-> source, io |-> io,
      chainFrom |-> IF follow THEN call.chainFrom ELSE cursor,
      chainItems |-> IF ~paged THEN <<>>
                     ELSE (IF follow THEN call.chainItems ELSE <<>>) \o result.items,
      chainCalls |-> (IF follow THEN call.chainCalls ELSE 0) + 1,
      chainSources |-> (IF follow THEN call.chainSources ELSE {}) \cup {source},
      chainKinds |-> (IF follow THEN call.chainKinds ELSE {}) \cup {io.kind}]

-----------------------------------------------------------------------------
(* Inputs                                                                  *)

MaxProviders == 2

CursorInputs ==
  {None, Some(<<"2", "0">>), Some(<<"8", "0">>), Some(<<"1", "0", "0">>),
   Some(<<"7">>), Some(<<"-", "5">>), Some(<<"a", "b", "c">>)}

LimitInputs == {0, 10, 25}

\* Ids: heights in and out of the mock corpus, a string that only starts with
\* digits, a string with no digit, and hashes of the instance's own blocks.
IdInputs(p) ==
  {<<"1", "2", "3", "4", "5">>, <<"1", "2", "3", "0", "6">>, <<"9", "9">>,
   <<"1", "2", "3", "4", "5", "a", "b", "c">>, <<"a", "b", "c">>}
  \cup {mockBlocks(p)[i].hash : i \in 1..3}

TxHashInputs(p) ==
  {<<"a", "b", "c">>} \cup {mockTransactions(p)[i].hash : i \in {1, 2, 161}}

AddrInputs == {<<"a">>, <<"m", "n", "1">>}

-----------------------------------------------------------------------------
(* Environment and construction                                            *)

\* Time passes.
Tick ==
  /\ clock < NumInstants
  /\ clock' = clock + 1
  /\ UNCHANGED <<connVars, env, providers, indexer, nodeVars, call, probe>>

\* getProvider() of data.ts: an HttpProvider when an endpoint is configured,
\* a MockProvider otherwise; the HttpProvider builds its own MockProvider.
\* Either way the instance holds the corpora of the current instant.
\* new HttpProvider() of data.ts throws when neither endpoint is configured.
HttpProviderThrows == ~env.INDEXER_URL /\ ~env.RPC_URL

getProvider ==
  [kind |-> IF env.INDEXER_URL \/ env.RPC_URL
            THEN (IF HttpProviderThrows THEN "mock" ELSE "http")   \* try / catch
            ELSE "mock",
   builtAt |-> clock]

\* new HttpProvider() of part_003 throws without an RPC_URL.
RpcHttpProviderThrows == ~env.RPC_URL

\* getProvider() of part_003: `return new HttpProvider()`; an exception of the
\* constructor reaches the caller (kind "failed": no instance is built).
RpcGetProvider ==
  [kind |-> IF RpcHttpProviderThrows THEN "failed" ELSE "rpc", builtAt |-> clock]

GetProvider ==
  /\ Len(providers) < MaxProviders
  /\ providers' = Append(providers, getProvider)
  /\ UNCHANGED <<connVars, env, clock, indexer, nodeVars, call, probe>>

GetRpcProvider ==
  /\ Len(providers) < MaxProviders
  /\ providers' = Append(providers, RpcGetProvider)
  /\ UNCHANGED <<connVars, env, clock, indexer, nodeVars, call, probe>>

Instances(kind) == {p \in DOMAIN providers : providers[p].kind = kind}

mock(p) == providers[p].builtAt

-----------------------------------------------------------------------------
(* Operations of a MockProvider instance                                   *)

Others == <<connVars, env, clock, providers, indexer, nodeVars, probe>>

NoIo == [answered |-> 0, kind |-> "none"]

\* The cursors a call may be made with: the inputs when it starts a request,
\* the previous nextCursor when it follows one.
Cursors(follow, backend, op, inst, id) ==
  IF follow
  THEN IF CanFollow(backend, op, inst, id) THEN {call.result.nextCursor} ELSE {}
  ELSE IF call = NoCall THEN CursorInputs ELSE {}

\* The observed request ends.
Return ==
  /\ call # NoCall
  /\ call' = NoCall
  /\ UNCHANGED Others

CallMockGetLatestBlocks ==
  /\ call = NoCall
  /\ \E p \in Instances("mock"), limit \in LimitInputs :
       /\ call' = Completed("mock", "getLatestBlocks", p, <<>>, None, limit, "none",
                         FALSE, MockGetLatestBlocks(mock(p), limit), "mock", NoIo, FALSE)
       /\ UNCHANGED Others

CallMockGetLatestTransactions ==
  /\ call = NoCall
  /\ \E p \in Instances("mock"), limit \in LimitInputs :
       /\ call' = Completed("mock", "getLatestTransactions", p, <<>>, None, limit, "none",
                         FALSE, MockGetLatestTransactions(mock(p), limit), "mock", NoIo, FALSE)
       /\ UNCHANGED Others

CallMockGetBlocksPage ==
  \E p \in Instances("mock"), follow \in BOOLEAN :
    \E cursor \in Cursors(follow, "mock", "getBlocksPage", p, <<>>) :
      /\ call' = Completed("mock", "getBlocksPage", p, <<>>, cursor, 0, "none",
                           FALSE, MockGetBlocksPage(mock(p), cursor), "mock", NoIo, follow)
      /\ UNCHANGED Others

CallMockGetBlockByHashOrHeight ==
  \E p \in {q \in Instances("mock") : call = NoCall} :
    \E id \in IdInputs(mock(p)) :
      /\ call' = Completed("mock", "getBlockByHashOrHeight", p, id, None, 0,
                           IF MockIdIsHeight(id) THEN "height" ELSE "hash",
                           FALSE, MockGetBlockByHashOrHeight(mock(p), id), "mock", NoIo, FALSE)
      /\ UNCHANGED Others

CallMockGetTransactionsPage ==
  \E p \in Instances("mock"), follow \in BOOLEAN :
    \E cursor \in Cursors(follow, "mock", "getTransactionsPage", p, <<>>) :
      /\ call' = Completed("mock", "getTransactionsPage", p, <<>>, cursor, 0, "none",
                           FALSE, MockGetTransactionsPage(mock(p), cursor), "mock", NoIo, follow)
      /\ UNCHANGED Others

CallMockGetTransactionByHash ==
  \E p \in {q \in Instances("mock") : call = NoCall} :
    \E hash \in TxHashInputs(mock(p)) :
      /\ call' = Completed("mock", "getTransactionByHash", p, hash, None, 0, "none",
                           FALSE, MockGetTransactionByHash(mock(p), hash), "mock", NoIo, FALSE)
      /\ UNCHANGED Others

CallMockGetAddressSummary ==
  /\ call = NoCall
  /\ \E p \in Instances("mock"), addr \in AddrInputs :
       /\ call' = Completed("mock", "getAddressSummary", p, addr, None, 0, "none",
                         FALSE, MockGetAddressSummary(mock(p), addr), "mock", NoIo, FALSE)
       /\ UNCHANGED Others

CallMockGetBlockTransactions ==
  \E p \in Instances("mock"), follow \in BOOLEAN :
    \E id \in IdInputs(mock(p)) :
      \E cursor \in Cursors(follow, "mock", "getBlockTransactions", p, id) :
        /\ call' = Completed("mock", "getBlockTransactions", p, id, cursor, 0,
                             IF MockIdIsHeight(id) THEN "height" ELSE "hash",
                             FALSE, MockGetBlockTransactions(mock(p), id, cursor),
                             "mock", NoIo, follow)
        /\ UNCHANGED Others

MockOps ==
  \/ CallMockGetLatestBlocks
  \/ CallMockGetLatestTransactions
  \/ CallMockGetBlocksPage
  \/ CallMockGetBlockByHashOrHeight
  \/ CallMockGetTransactionsPage
  \/ CallMockGetTransactionByHash
  \/ CallMockGetAddressSummary
  \/ CallMockGetBlockTransactions

-----------------------------------------------------------------------------
(* Connection manager (polkadot.ts)                                        *)

NumCallers == 2
MaxHandles == 3

Callers == 1..NumCallers

Idle == [at |-> "idle", h |-> 0, ret |-> None]

IsConnected(h) == handles[h].state = "connected"

\* new WsProvider(wsUrl): a handle that is connecting, with no listener.
NewHandle == [state |-> "connecting", listeners |-> {}]

callVars == <<env, clock, providers, indexer, nodeVars, call, probe>>

\* getApi() up to its first await.  With a cached, connected handle it returns
\* at once.  With a cached handle that is not connected it removes the
\* registered handler and awaits disconnect().  Otherwise it starts a
\* connection and awaits ApiPromise.create().
GetApiCall(c) ==
  /\ pc[c].at = "idle"
  /\ IF apiInstance # None /\ IsConnected(Val(apiInstance))
     THEN /\ pc' = [pc EXCEPT ![c] = [at |-> "returned", h |-> 0, ret |-> apiInstance]]
          /\ UNCHANGED <<apiInstance, disconnectHandler, handles>>
     ELSE IF apiInstance # None
     THEN /\ handles' =
               [handles EXCEPT ![Val(apiInstance)].listeners =
                  IF disconnectHandler # None THEN @ \ {Val(disconnectHandler)} ELSE @]
          /\ pc' = [pc EXCEPT ![c] = [at |-> "awaitDisconnect", h |-> Val(apiInstance),
                                      ret |-> None]]
          /\ UNCHANGED <<apiInstance, disconnectHandler>>
     ELSE /\ Len(handles) < MaxHandles
          /\ handles' = Append(handles, NewHandle)
          /\ pc' = [pc EXCEPT ![c] = [at |-> "awaitCreate", h |-> Len(handles) + 1,
                                      ret |-> None]]
          /\ UNCHANGED <<apiInstance, disconnectHandler>>
  /\ UNCHANGED callVars

\* getApi() resumes after its pending await.
\*   after disconnect(): apiInstance = null, then the connection is started;
\*   after ApiPromise.create(): the new handle is cached, a fresh handler is
\*   stored in disconnectHandler and registered on it, and it is returned.
GetApiResume(c) ==
  /\ pc[c].at \in {"awaitDisconnect", "awaitCreate"}
  /\ IF pc[c].at = "awaitDisconnect"
     THEN /\ Len(handles) < MaxHandles
          /\ apiInstance' = None
          /\ handles' = Append([handles EXCEPT ![pc[c].h].state = "closed"], NewHandle)
          /\ pc' = [pc EXCEPT ![c] = [at |-> "awaitCreate", h |-> Len(handles) + 1,
                                      ret |-> None]]
          /\ UNCHANGED disconnectHandler
     ELSE /\ apiInstance' = Some(pc[c].h)
          /\ disconnectHandler' = Some(pc[c].h)
          /\ handles' = [handles EXCEPT ![pc[c].h] =
                           [state |-> "connected", listeners |-> @.listeners \cup {pc[c].h}]]
          /\ pc' = [pc EXCEPT ![c] = [at |-> "returned", h |-> 0, ret |-> Some(pc[c].h)]]
  /\ UNCHANGED callVars

\* ApiPromise.create() rejects (the endpoint cannot be reached): getApi() rejects.
GetApiFail(c) ==
  /\ pc[c].at = "awaitCreate"
  /\ handles' = [handles EXCEPT ![pc[c].h].state = "failed"]
  /\ pc' = [pc EXCEPT ![c] = [at |-> "failed", h |-> 0, ret |-> None]]
  /\ UNCHANGED <<apiInstance, disconnectHandler, callVars>>

\* The caller takes the outcome; it may call again.
GetApiDone(c) ==
  /\ pc[c].at \in {"returned", "failed"}
  /\ pc' = [pc EXCEPT ![c] = Idle]
  /\ UNCHANGED <<apiInstance, disconnectHandler, handles, callVars>>

\* Disconnected whose handler leaves the cache as it is.
Disconnected_KeepsCache(h) ==
  /\ IsConnected(h)
  /\ handles' = [handles EXCEPT ![h].state = "disconnected"]
  /\ UNCHANGED <<apiInstance, disconnectHandler, pc, callVars>>

\* The socket of handle h drops: isConnected becomes false and 'disconnected'
\* is emitted; every handler registered on h runs, and each is
\* `() => { apiInstance = null }`.
Disconnected(h) ==
  /\ IsConnected(h)
  /\ handles' = [handles EXCEPT ![h].state = "disconnected"]
  /\ apiInstance' = IF handles[h].listeners # {} THEN None ELSE apiInstance
  /\ UNCHANGED <<disconnectHandler, pc, callVars>>

\* WsProvider reconnects by itself (autoConnectMs): the handle is connected again.
Reconnected(h) ==
  /\ handles[h].state = "disconnected"
  /\ handles' = [handles EXCEPT ![h].state = "connected"]
  /\ UNCHANGED <<apiInstance, disconnectHandler, pc, callVars>>

ConnNext ==
  \/ \E c \in Callers : GetApiCall(c) \/ GetApiResume(c) \/ GetApiFail(c) \/ GetApiDone(c)
  \/ \E h \in DOMAIN handles : Disconnected(h) \/ Reconnected(h)

-----------------------------------------------------------------------------
(* The node, as the RPC-backed HttpProvider sees it (environment)          *)

MaxTip == 1

\* The blocks the node can produce: a number of extrinsics and the shape of the
\* block's event log.
BlockShapes ==
  {[count |-> 0, log |-> "none"],
   [count |-> PageSize, log |-> "success"],
   [count |-> PageSize + 1, log |-> "mixed"]}

\* hash.toHex() of the block at a height, and of the i-th extrinsic of it.
BlockHash(height) == <<"0", "x", "b">> \o NatToString(height)
ExtHash(height, i) == <<"0", "x">> \o NatToString(height) \o <<"a">> \o NatToString(i)

\* What chain.getBlockHash answers for a height the chain does not have.
ZeroHash == <<"0", "x", "0">>

\* block.extrinsics of the block at a height: the first one is the timestamp
\* inherent, whose argument is the block's time.
Extrinsics(height) ==
  [i \in 1..chain[height + 1].count |->
     [section |-> IF i = 1 THEN "timestamp" ELSE "balances",
      arg |-> StartInstant + height,
      hash |-> ExtHash(height, i - 1),
      encodedLength |-> 100 + i]]

\* system.events at the block: records [applyExtrinsic, section, method], where
\* applyExtrinsic is the index of the phase, absent for the other phases.
\* Every extrinsic has two records.  In a "success" log they are a deposit of
\* the initialization phase and its system.ExtrinsicSuccess.  A "mixed" log
\* differs for the extrinsics at index
\*   1: system.ExtrinsicFailed;
\*   2: system.Deposit only;
\*   3: system.ExtrinsicFailed and then system.ExtrinsicSuccess;
\*   4: an ExtrinsicSuccess of another phase and one of another section.
EventRecord(phase, section, method) ==
  [applyExtrinsic |-> phase, section |-> section, method |-> method]

EventsOf(log, idx) ==
  IF log = "mixed" /\ idx = 1
  THEN <<EventRecord(None, "system", "Deposit"),
         EventRecord(Some(idx), "system", "ExtrinsicFailed")>>
  ELSE IF log = "mixed" /\ idx = 2
  THEN <<EventRecord(None, "system", "Deposit"),
         EventRecord(Some(idx), "system", "Deposit")>>
  ELSE IF log = "mixed" /\ idx = 3
  THEN <<EventRecord(Some(idx), "system", "ExtrinsicFailed"),
         EventRecord(Some(idx), "system", "ExtrinsicSuccess")>>
  ELSE IF log = "mixed" /\ idx = 4
  THEN <<EventRecord(None, "system", "ExtrinsicSuccess"),
         EventRecord(Some(idx), "balances", "ExtrinsicSuccess")>>
  ELSE <<EventRecord(None, "system", "Deposit"),
         EventRecord(Some(idx), "system", "ExtrinsicSuccess")>>

Events(height) ==
  LET n == chain[height + 1].count
      log == chain[height + 1].log
  IN IF log = "none" THEN <<>>
     ELSE [k \in 1..(2 * n) |-> EventsOf(log, (k - 1) \div 2)[((k - 1) % 2) + 1]]

\* api.rpc.chain.getBlockHash(height)
NodeGetBlockHash(height) ==
  IF height \in 0..tip THEN BlockHash(height) ELSE ZeroHash

\* The heights of the chain whose block has the hash: at most one.
HeightsOfHash(hash) ==
  IF Len(hash) > 3 /\ SubSeq(hash, 1, 3) = <<"0", "x", "b">>
     /\ IsAllDigits(SubSeq(hash, 4, Len(hash)))
  THEN {h \in {ParseInt(SubSeq(hash, 4, Len(hash))).val} : h <= tip /\ BlockHash(h) = hash}
  ELSE {}

\* api.rpc.chain.getBlock(hash).  For a hash no block has, the node either
\* reports a failure (the promise rejects) or the answer decodes to an empty
\* block with header number 0: `unknown` says which.
NodeGetBlock(hash, unknown) ==
  LET known == HeightsOfHash(hash)
  IN IF known # {}
     THEN LET h == CHOOSE x \in known : TRUE
          IN [rejected |-> FALSE, number |-> h, extrinsics |-> Extrinsics(h)]
     ELSE IF unknown = "reject"
     THEN [rejected |-> TRUE, number |-> 0, extrinsics |-> <<>>]
     ELSE [rejected |-> FALSE, number |-> 0, extrinsics |-> <<>>]

\* A block is finalized, between the requests under observation: the record
\* of a completed call is read against the chain the call saw.
NewBlock ==
  /\ call = NoCall
  /\ tip < MaxTip
  /\ \E b \in BlockShapes : chain' = Append(chain, b)
  /\ tip' = tip + 1
  /\ UNCHANGED <<connVars, env, clock, providers, indexer, call, probe>>

-----------------------------------------------------------------------------
(* RPC-backed HttpProvider (part_003)                                      *)

MaxScanBlocks == 200

Ok(v) == [rejected |-> FALSE, value |-> v]
Rejected == [rejected |-> TRUE, value |-> <<>>]

\* Promise.all over a list of outcomes.
RECURSIVE AllOk(_)
AllOk(outs) ==
  IF outs = <<>> THEN Ok(<<>>)
  ELSE IF Head(outs).rejected THEN Rejected
  ELSE LET rest == AllOk(Tail(outs))
       IN IF rest.rejected THEN Rejected ELSE Ok(<<Head(outs).value>> \o rest.value)

\* The timestamp of a block: the argument of its timestamp extrinsic.
BlockTimestamp(extrinsics) ==
  LET isTs(e) == e.section = "timestamp"
      found == Find(extrinsics, isTs)
  IN IF found = None THEN None ELSE Some(Val(found).arg)

\* getBlockByHeight(height); without a timestamp extrinsic the timestamp is now.
RpcGetBlockByHeight(height, unknown) ==
  LET hash == NodeGetBlockHash(height)
      signedBlock == NodeGetBlock(hash, unknown)
      ts == BlockTimestamp(signedBlock.extrinsics)
  IN IF signedBlock.rejected THEN Rejected
     ELSE Ok([height |-> height, hash |-> hash,
              timestamp |-> IF ts = None THEN Instants[clock] ELSE Val(ts),
              txCount |-> Len(signedBlock.extrinsics)])

\* ExtrinsicStatus that tests the failure marker before the success marker.
ExtrinsicStatus_FailedFirst(events, idx) ==
  LET isRelated(rec) == rec.applyExtrinsic # None /\ Val(rec.applyExtrinsic) = idx
      related == SelectSeq(events, isRelated)
      some(method) == \E k \in 1..Len(related) :
                         related[k].section = "system" /\ related[k].method = method
  IN IF some("ExtrinsicFailed") THEN "failed"
     ELSE IF some("ExtrinsicSuccess") THEN "success"
     ELSE "pending"

\* The status of the extrinsic at index idx, from the events of its block.
ExtrinsicStatus(events, idx) ==
  LET isRelated(rec) == rec.applyExtrinsic # None /\ Val(rec.applyExtrinsic) = idx
      related == SelectSeq(events, isRelated)
      some(method) == \E k \in 1..Len(related) :
                         related[k].section = "system" /\ related[k].method = method
  IN IF some("ExtrinsicSuccess") THEN "success"
     ELSE IF some("ExtrinsicFailed") THEN "failed"
     ELSE "pending"

\* mapExtrinsicsForBlock that fails when the read of the events fails.
RpcMapExtrinsicsForBlock_EventsRequired(blockHeight, blockHashHex, unknown, eventsFail) ==
  LET signedBlock == NodeGetBlock(blockHashHex, unknown)
      extrinsics == signedBlock.extrinsics
      blockTimestamp == BlockTimestamp(extrinsics)
      events == IF signedBlock.number \notin 0..tip
                   \/ BlockHash(signedBlock.number) # blockHashHex
                THEN <<>> ELSE Events(signedBlock.number)
  IN IF signedBlock.rejected \/ eventsFail THEN Rejected
     ELSE Ok([i \in 1..Len(extrinsics) |->
                [hash |-> extrinsics[i].hash,
                 status |-> ExtrinsicStatus(events, i - 1),
                 blockHeight |-> Some(blockHeight),
                 timestamp |-> blockTimestamp,
                 size |-> Some(extrinsics[i].encodedLength)]])

\* mapExtrinsicsForBlock(blockHeight, blockHashHex); a failed read of the
\* events leaves the list empty.
RpcMapExtrinsicsForBlock(blockHeight, blockHashHex, unknown, eventsFail) ==
  LET signedBlock == NodeGetBlock(blockHashHex, unknown)
      extrinsics == signedBlock.extrinsics
      blockTimestamp == BlockTimestamp(extrinsics)
      events == IF eventsFail \/ signedBlock.number \notin 0..tip
                   \/ BlockHash(signedBlock.number) # blockHashHex
                THEN <<>> ELSE Events(signedBlock.number)
  IN IF signedBlock.rejected THEN Rejected
     ELSE Ok([i \in 1..Len(extrinsics) |->
                [hash |-> extrinsics[i].hash,
                 status |-> ExtrinsicStatus(events, i - 1),
                 blockHeight |-> Some(blockHeight),
                 timestamp |-> blockTimestamp,
                 size |-> Some(extrinsics[i].encodedLength)]])

\* getBlocksPage that gives a nextCursor after every page that has an item.
RpcGetBlocksPage_AlwaysNext(cursor, unknown) ==
  LET offset == CursorOffset(cursor)
      \* for (i < pageSize) { h = tip - offset - i; if (h < 0) break; push(h) }
      \* (with a NaN offset h is NaN, h < 0 is false, and all 20 are pushed)
      first == IF offset.nan THEN 0 ELSE tip - offset.val
      count == IF offset.nan THEN PageSize
               ELSE IF first < 0 THEN 0 ELSE Min(PageSize, first + 1)
      heights == [i \in 1..count |-> first - (i - 1)]
      items == AllOk([i \in 1..count |->
                        IF offset.nan THEN Rejected
                        ELSE RpcGetBlockByHeight(heights[i], unknown)])
  IN IF items.rejected THEN Rejected
     ELSE Ok(Page(items.value,
                  IF count > 0
                  THEN Some(IF offset.nan THEN <<"N", "a", "N">>
                            ELSE NumToString(offset.val + PageSize))
                  ELSE None))

\* getBlocksPage(cursor)
RpcGetBlocksPage(cursor, unknown) ==
  LET offset == CursorOffset(cursor)
      \* for (i < pageSize) { h = tip - offset - i; if (h < 0) break; push(h) }
      \* (with a NaN offset h is NaN, h < 0 is false, and all 20 are pushed)
      first == IF offset.nan THEN 0 ELSE tip - offset.val
      count == IF offset.nan THEN PageSize
               ELSE IF first < 0 THEN 0 ELSE Min(PageSize, first + 1)
      heights == [i \in 1..count |-> first - (i - 1)]
      items == AllOk([i \in 1..count |->
                        IF offset.nan THEN Rejected
                        ELSE RpcGetBlockByHeight(heights[i], unknown)])
  IN IF items.rejected THEN Rejected
     ELSE Ok(Page(items.value,
                  IF count = PageSize
                  THEN Some(IF offset.nan THEN <<"N", "a", "N">>
                            ELSE NumToString(offset.val + PageSize))
                  ELSE None))

RpcIdIsHeight(id) == IsAllDigits(id)

\* The height and hash an id resolves to (getBlockByHashOrHeight,
\* getBlockTransactions): by getBlockHash for a height, by getBlock for a hash.
RpcResolve(id, unknown) ==
  IF RpcIdIsHeight(id)
  THEN Ok([height |-> ParseInt(id).val, hashHex |-> NodeGetBlockHash(ParseInt(id).val)])
  ELSE LET signedBlock == NodeGetBlock(id, unknown)
       IN IF signedBlock.rejected THEN Rejected
          ELSE Ok([height |-> signedBlock.number, hashHex |-> id])

\* getBlockByHashOrHeight(id)
RpcGetBlockByHashOrHeight(id, unknown) ==
  LET r == RpcResolve(id, unknown)
  IN IF r.rejected THEN Rejected
     ELSE IF r.value.hashHex = <<>> THEN Ok(None)
     ELSE LET b == RpcGetBlockByHeight(r.value.height, unknown)
          IN IF b.rejected THEN Rejected ELSE Ok(Some(b.value))

\* What one pass of a scan loop reads at height h:
\*   const hash = await api.rpc.chain.getBlockHash(h);
\*   const items = await this.mapExtrinsicsForBlock(h, hash.toHex());
RpcBlockItems(h, unknown, eventsFail) ==
  RpcMapExtrinsicsForBlock(h, NodeGetBlockHash(h), unknown, eventsFail)

\* `out` after the passes over the heights hi down to lo, each pass doing
\* out.push(...items.reverse()).
RECURSIVE RpcCollected(_, _, _, _)
RpcCollected(hi, lo, unknown, eventsFail) ==
  IF hi < lo THEN <<>>
  ELSE IF hi = lo THEN Reverse(RpcBlockItems(hi, unknown, eventsFail).value)
  ELSE LET mid == (hi + lo) \div 2
       IN RpcCollected(hi, mid + 1, unknown, eventsFail)
            \o RpcCollected(mid, lo, unknown, eventsFail)

\* The number of passes in lo..hi after which the loop condition
\* `out.length < want` first fails (hi when it never does); out only grows.
RECURSIVE RpcPasses(_, _, _, _, _)
RpcPasses(lo, hi, want, unknown, eventsFail) ==
  IF lo >= hi THEN hi
  ELSE LET mid == (lo + hi) \div 2
       IN IF Len(RpcCollected(tip, tip - mid + 1, unknown, eventsFail)) >= want
          THEN RpcPasses(lo, mid, want, unknown, eventsFail)
          ELSE RpcPasses(mid + 1, hi, want, unknown, eventsFail)

\* The heights among the `passes` newest whose read rejects.
RpcRejects(passes, unknown, eventsFail) ==
  {h \in (tip - passes + 1)..tip : RpcBlockItems(h, unknown, eventsFail).rejected}

\* The loop after `passes` passes, `rejects` being the heights among them whose
\* read rejects: the loop is left at the highest of them, if any.
RpcScanOutcome(passes, rejects, unknown, eventsFail) ==
  IF rejects # {}
  THEN Rejected @@ [scanned |-> tip - Highest(rejects), h |-> Highest(rejects)]
  ELSE Ok(RpcCollected(tip, tip - passes + 1, unknown, eventsFail))
         @@ [scanned |-> passes, h |-> tip - passes]

RpcScanPasses(passes, unknown, eventsFail) ==
  RpcScanOutcome(passes, RpcRejects(passes, unknown, eventsFail), unknown, eventsFail)

\* The loop shared by getLatestTransactions and getTransactionsPage:
\*   h = tip; scanned = 0;
\*   while (out.length < want && h >= 0 && scanned < maxScanBlocks) {
\*     items = ...; out.push(...items.reverse()); h -= 1; scanned += 1 }
\* The outcome carries the final `scanned` and `h`.
RpcScan(want, unknown, eventsFail) ==
  RpcScanPasses(RpcPasses(0, Min(MaxScanBlocks, tip + 1), want, unknown, eventsFail),
                unknown, eventsFail)

\* return out.slice(0, limit)
RpcSliced(out, limit) ==
  IF out.rejected THEN out
  ELSE [out EXCEPT !.value = Slice(out.value, [nan |-> FALSE, val |-> 0],
                                    [nan |-> FALSE, val |-> limit])]

\* getLatestTransactions that returns all it has collected.
RpcGetLatestTransactions_NoSlice(limit, unknown, eventsFail) ==
  RpcScan(limit, unknown, eventsFail)

\* getLatestTransactions(limit): the loop, then out.slice(0, limit).
RpcGetLatestTransactions(limit, unknown, eventsFail) ==
  RpcSliced(RpcScan(limit, unknown, eventsFail), limit)

\* The page of getTransactionsPage, from what the loop collected.
RpcTransactionsPage(collected, offset) ==
  IF collected.rejected THEN Rejected
  ELSE Ok(Page(Slice(collected.value, offset, NumPlus(offset, PageSize)),
               IF ~offset.nan /\ Len(collected.value) > offset.val + PageSize
               THEN Some(NumToString(offset.val + PageSize)) ELSE None))

RpcScanFrom(offset, unknown, eventsFail) ==
  IF offset.nan THEN Ok(<<>>) ELSE RpcScan(offset.val + PageSize, unknown, eventsFail)

\* getTransactionsPage(cursor); `collected.length < NaN` is false.
RpcGetTransactionsPage(cursor, unknown, eventsFail) ==
  RpcTransactionsPage(RpcScanFrom(CursorOffset(cursor), unknown, eventsFail),
                      CursorOffset(cursor))

\* getBlockTransactions(id, cursor)
RpcGetBlockTransactions(id, cursor, unknown, eventsFail) ==
  LET r == RpcResolve(id, unknown)
      all == RpcMapExtrinsicsForBlock(r.value.height, r.value.hashHex, unknown, eventsFail)
      offset == CursorOffset(cursor)
  IN IF r.rejected THEN Rejected
     ELSE IF all.rejected THEN Rejected
     ELSE Ok(Page(Slice(all.value, offset, NumPlus(offset, PageSize)),
                  IF ~offset.nan /\ Len(all.value) > offset.val + PageSize
                  THEN Some(NumToString(offset.val + PageSize)) ELSE None))

\* The scan bound of getTransactionByHash.
MaxScanBlocksByHash == 500

\* String.prototype.toLowerCase on the characters hashes are written with.
UpperCase == <<"A", "B", "C", "D", "E", "F", "X">>
LowerCase == <<"a", "b", "c", "d", "e", "f", "x">>

ToLowerCase(s) ==
  [i \in 1..Len(s) |->
     IF \E k \in 1..Len(UpperCase) : UpperCase[k] = s[i]
     THEN LowerCase[CHOOSE k \in 1..Len(UpperCase) : UpperCase[k] = s[i]]
     ELSE s[i]]

\* FindByHash that compares the hashes as they are written.
FindByHash_CaseSensitive(items, hash) ==
  LET hits == {k \in 1..Len(items) : items[k].hash = hash}
  IN IF hits = {} THEN None ELSE Some(items[CHOOSE k \in hits : \A j \in hits : k <= j])

\* items.find((tx) => tx.hash.toLowerCase() === hash.toLowerCase())
FindByHash(items, hash) ==
  LET hits == {k \in 1..Len(items) : ToLowerCase(items[k].hash) = ToLowerCase(hash)}
  IN IF hits = {} THEN None ELSE Some(items[CHOOSE k \in hits : \A j \in hits : k <= j])

\* The heights from `last` to the tip at which the loop of
\* getTransactionByHash would be left: the read rejects or the block holds
\* the hash.
RpcStops(hash, last, unknown, eventsFail) ==
  {h \in last..tip :
     \/ RpcBlockItems(h, unknown, eventsFail).rejected
     \/ FindByHash(RpcBlockItems(h, unknown, eventsFail).value, hash) # None}

\* The loop left at height h, where the read gave `items`.
RpcFoundIn(items, h, hash) ==
  IF items.rejected
  THEN [rejected |-> TRUE, value |-> <<>>, visited |-> tip - h + 1, lowest |-> h]
  ELSE [rejected |-> FALSE, value |-> FindByHash(items.value, hash),
        visited |-> tip - h + 1, lowest |-> h]

RpcFindOutcome(stops, last, hash, unknown, eventsFail) ==
  IF stops = {}
  THEN [rejected |-> FALSE, value |-> None, visited |-> tip - last + 1, lowest |-> last]
  ELSE RpcFoundIn(RpcBlockItems(Highest(stops), unknown, eventsFail), Highest(stops), hash)

RpcFindFrom(last, hash, unknown, eventsFail) ==
  RpcFindOutcome(RpcStops(hash, last, unknown, eventsFail), last, hash, unknown, eventsFail)

\* The loop of getTransactionByHash:
\*   h = tip; scanned = 0;
\*   while (h >= 0 && scanned < maxScanBlocks) {
\*     items = ...; found = items.find(...); if (found) return found;
\*     h -= 1; scanned += 1 }
\*   return null
\* The passes run over the heights tip down to `last`; the loop leaves at the
\* first of them (the highest) whose read rejects or whose block holds the
\* hash.  `visited` counts the heights read, `lowest` is the last one read.
RpcFind(hash, unknown, eventsFail) ==
  RpcFindFrom(Max(0, tip - MaxScanBlocksByHash + 1), hash, unknown, eventsFail)

\* getTransactionByHash(hash)
RpcGetTransactionByHash(hash, unknown, eventsFail) == RpcFind(hash, unknown, eventsFail)

\* getAddressSummary that answers from the chain: a summary of the address
\* after reading the tip's block.
RpcGetAddressSummary_Scans(addr) ==
  [rejected |-> FALSE,
   value |-> Some([address |-> addr, balance |-> <<"0">>, txCount |-> 0]),
   requests |-> 1]

\* getAddressSummary(_addr): `return null`, with no request to the node.
RpcGetAddressSummary(addr) ==
  [rejected |-> FALSE, value |-> None, requests |-> 0]

\* AddressDetailPage: `if (!addressSummary) notFound()`, else the page of the
\* summary.
AddressDetailPage(addressSummary) ==
  IF addressSummary = None THEN "notFound" ELSE "rendered"

UnknownModes == {"reject", "empty"}

RpcIdInputs ==
  {<<"0">>, <<"1">>, <<"9", "9">>, <<"1", "a">>, BlockHash(0), BlockHash(1),
   <<"0", "x", "f", "f">>}

RpcIo(unknown, eventsFail) ==
  [answered |-> 0, kind |-> unknown, eventsFail |-> eventsFail]

RpcOthers == <<connVars, env, clock, providers, indexer, nodeVars, probe>>

\* The record of a completed scan (getLatestTransactions, getTransactionByHash)
\* from its outcome r, with the number of heights read and the lowest of them.
RpcCompleted(op, id, limit, inst, r, unknown, eventsFail) ==
  Completed("rpc", op, inst, id, None, limit, "none", r.rejected, r.value, "node",
            RpcIo(unknown, eventsFail)
              @@ [visited |-> IF op = "getTransactionByHash" THEN r.visited ELSE r.scanned,
                  lowest |-> IF op = "getTransactionByHash" THEN r.lowest ELSE r.h + 1],
            FALSE)

CallRpcGetBlocksPage ==
  \E p \in Instances("rpc"), follow \in BOOLEAN, unknown \in UnknownModes :
    \E cursor \in Cursors(follow, "rpc", "getBlocksPage", p, <<>>) :
      LET r == RpcGetBlocksPage(cursor, unknown)
      IN /\ call' = Completed("rpc", "getBlocksPage", p, <<>>, cursor, 0, "none",
                              r.rejected, r.value, "node", RpcIo(unknown, FALSE), follow)
         /\ UNCHANGED RpcOthers

CallRpcGetBlockByHashOrHeight ==
  \E p \in {q \in Instances("rpc") : call = NoCall}, unknown \in UnknownModes :
    \E id \in RpcIdInputs :
      LET r == RpcGetBlockByHashOrHeight(id, unknown)
      IN /\ call' = Completed("rpc", "getBlockByHashOrHeight", p, id, None, 0,
                              IF RpcIdIsHeight(id) THEN "height" ELSE "hash",
                              r.rejected, r.value, "node", RpcIo(unknown, FALSE), FALSE)
         /\ UNCHANGED RpcOthers

CallRpcGetTransactionsPage ==
  \E p \in Instances("rpc"), follow \in BOOLEAN, unknown \in UnknownModes,
     eventsFail \in BOOLEAN :
    \E cursor \in Cursors(follow, "rpc", "getTransactionsPage", p, <<>>) :
      LET r == RpcGetTransactionsPage(cursor, unknown, eventsFail)
      IN /\ call' = Completed("rpc", "getTransactionsPage", p, <<>>, cursor, 0, "none",
                              r.rejected, r.value, "node", RpcIo(unknown, eventsFail),
                              follow)
         /\ UNCHANGED RpcOthers

CallRpcGetBlockTransactions ==
  \E p \in Instances("rpc"), follow \in BOOLEAN, unknown \in UnknownModes,
     eventsFail \in BOOLEAN :
    \E id \in RpcIdInputs :
      \E cursor \in Cursors(follow, "rpc", "getBlockTransactions", p, id) :
        LET r == RpcGetBlockTransactions(id, cursor, unknown, eventsFail)
        IN /\ call' = Completed("rpc", "getBlockTransactions", p, id, cursor, 0,
                                IF RpcIdIsHeight(id) THEN "height" ELSE "hash",
                                r.rejected, r.value, "node", RpcIo(unknown, eventsFail),
                                follow)
           /\ UNCHANGED RpcOthers

\* Hashes of extrinsics of the chain in either letter case, and one of none.
RpcTxHashInputs ==
  {ExtHash(0, 0), <<"0", "X", "0", "A", "0">>, ExtHash(1, 1), <<"0", "X", "2", "a", "0">>,
   <<"0", "x", "f", "f">>}
  \cup (IF tip >= MaxScanBlocksByHash
        THEN {ExtHash(tip - (MaxScanBlocksByHash - 1), 0), ExtHash(tip - MaxScanBlocksByHash, 0)}
        ELSE {})

CallRpcGetTransactionByHash ==
  \E p \in {q \in Instances("rpc") : call = NoCall}, unknown \in UnknownModes,
     eventsFail \in BOOLEAN :
    \E hash \in RpcTxHashInputs :
      /\ call' = RpcCompleted("getTransactionByHash", hash, 0, p,
                              RpcGetTransactionByHash(hash, unknown, eventsFail),
                              unknown, eventsFail)
      /\ UNCHANGED RpcOthers

RpcLimitInputs == {0, 1, PageSize, PageSize + 5}

CallRpcGetLatestTransactions ==
  \E p \in {q \in Instances("rpc") : call = NoCall}, unknown \in UnknownModes,
     eventsFail \in BOOLEAN :
    \E limit \in RpcLimitInputs :
      /\ call' = RpcCompleted("getLatestTransactions", <<>>, limit, p,
                              RpcGetLatestTransactions(limit, unknown, eventsFail),
                              unknown, eventsFail)
      /\ UNCHANGED RpcOthers

CallRpcGetAddressSummary ==
  \E p \in {q \in Instances("rpc") : call = NoCall}, addr \in AddrInputs :
    /\ call' = Completed("rpc", "getAddressSummary", p, addr, None, 0, "none",
                         RpcGetAddressSummary(addr).rejected,
                         RpcGetAddressSummary(addr).value, "none",
                         NoIo @@ [visited |-> RpcGetAddressSummary(addr).requests], FALSE)
    /\ UNCHANGED RpcOthers

RpcOps ==
  \/ CallRpcGetAddressSummary
  \/ CallRpcGetLatestTransactions
  \/ CallRpcGetTransactionByHash
  \/ CallRpcGetBlocksPage
  \/ CallRpcGetBlockByHashOrHeight
  \/ CallRpcGetTransactionsPage
  \/ CallRpcGetBlockTransactions

-----------------------------------------------------------------------------
(* JavaScript values of the indexer's JSON payloads                        *)

\* A value is a record [t, v]: t is its type, v its content (a number, a
\* sequence of characters, a boolean, a sequence of values, a record of
\* values; 0 where the type has a single value).
JUndef == [t |-> "undefined", v |-> 0]
JNull == [t |-> "null", v |-> 0]
JNaN == [t |-> "nan", v |-> 0]
JNum(n) == [t |-> "num", v |-> n]
JStr(s) == [t |-> "str", v |-> s]
JBool(b) == [t |-> "bool", v |-> b]
JList(l) == [t |-> "list", v |-> l]
JObj(r) == [t |-> "obj", v |-> r]
JDate(n) == [t |-> "date", v |-> n]

Nullish(x) == x.t \in {"undefined", "null"}

Truthy(x) ==
  CASE x.t \in {"undefined", "null", "nan"} -> FALSE
    [] x.t = "num" -> x.v # 0
    [] x.t = "str" -> x.v # <<>>
    [] x.t = "bool" -> x.v
    [] OTHER -> TRUE

\* a || b
Or(a, b) == IF Truthy(a) THEN a ELSE b

\* a ?? b
Coalesce(a, b) == IF Nullish(a) THEN b ELSE a

\* a === b, for the primitive values compared in the code.
StrictEq(a, b) == a.t = b.t /\ a.t # "nan" /\ a.v = b.v

\* o.f for an o that is not null or undefined (where it is, the access throws
\* a TypeError, which the callers test for with Nullish).
Get(o, f) ==
  CASE o.t = "obj" -> IF f \in DOMAIN o.v THEN o.v[f] ELSE JUndef
    [] o.t \in {"list", "str"} -> IF f = "length" THEN JNum(Len(o.v)) ELSE JUndef
    [] OTHER -> JUndef

\* o?.f
OptGet(o, f) == IF Nullish(o) THEN JUndef ELSE Get(o, f)

\* parseInt(x, 10) of a value: of its string form.
ParseIntJ(x) ==
  CASE x.t = "str" -> IF ParseInt(x.v).nan THEN JNaN ELSE JNum(ParseInt(x.v).val)
    [] x.t = "num" -> x
    [] OTHER -> JNaN

\* The number a value converts to in arithmetic (Number(x)).
ToNumber(x) ==
  CASE x.t = "num" -> x
    [] x.t = "null" -> JNum(0)
    [] x.t = "bool" -> JNum(IF x.v THEN 1 ELSE 0)
    [] x.t = "str" -> IF x.v = <<>> THEN JNum(0)
                      ELSE IF IsAllDigits(x.v) THEN JNum(ParseInt(x.v).val)
                      ELSE JNaN
    [] OTHER -> JNaN

-----------------------------------------------------------------------------
(* Indexer-backed HttpProvider: mapBlock, mapTransaction                   *)

\* typeof header?.number === 'string' ? parseInt(header.number, 10) : header?.number
HeaderNumber(number) == IF number.t = "str" THEN ParseIntJ(number) ELSE number

\* new Date(ms).toISOString(), and the estimate now - height * 2 minutes: an
\* invalid date makes toISOString throw (None).
HeaderDate(ms) == IF ms.t = "nan" THEN None ELSE Some(JDate(ms.v))
EstimatedDate(height, now) ==
  IF height.t = "nan" THEN None ELSE Some(JDate(now - height.v * 2))

\* The timestamp of a mapped block: the one given, else the header's, else
\* the estimate.
MappedTimestamp(given, headerTimestamp, height, now) ==
  IF Truthy(given) THEN Some(given)
  ELSE IF Truthy(headerTimestamp) THEN HeaderDate(ParseIntJ(headerTimestamp))
  ELSE EstimatedDate(ToNumber(height), now)

\* The end of mapBlock, from the fields extracted.
MappedBlock(height, hash, timestamp, txCount) ==
  IF height.t = "undefined" THEN None
  ELSE IF ~Truthy(hash) THEN None
  ELSE IF timestamp = None THEN None
  ELSE Some([height |-> height, hash |-> hash, timestamp |-> Val(timestamp),
             txCount |-> txCount])

\* The height of blockData: height || number || the header's number.
BlockDataHeight(blockData) ==
  Or(Or(Get(blockData, "height"), Get(blockData, "number")),
     HeaderNumber(OptGet(Get(blockData, "header"), "number")))

\* mapBlock from `const blockData = block.block || block` on.
mapBlockData(blockData, now) ==
  MappedBlock(
    BlockDataHeight(blockData),
    Or(Or(Get(blockData, "hash"), Get(blockData, "blockHash")), Get(blockData, "id")),
    MappedTimestamp(
      Or(Or(Get(blockData, "timestamp"), Get(blockData, "time")),
         Get(blockData, "datetime")),
      OptGet(Get(blockData, "header"), "timestamp"),
      BlockDataHeight(blockData), now),
    Or(Or(Or(Get(blockData, "txCount"), Get(blockData, "transactionCount")),
          Get(blockData, "extrinsicsCount")),
       Coalesce(OptGet(Get(blockData, "extrinsics"), "length"), JNum(0))))

\* mapBlock(block) at instant `now`: the Block, or None where the code returns
\* null: a mandatory field is missing, or an exception is caught (block is null
\* or undefined; toISOString of an invalid date).
mapBlock(block, now) ==
  IF Nullish(block) THEN None
  ELSE mapBlockData(Or(Get(block, "block"), block), now)

\* The status of a mapped transaction, from txData.status and txData.success.
MappedStatus(status, success) ==
  IF StrictEq(status, JBool(TRUE)) \/ StrictEq(success, JBool(TRUE))
     \/ StrictEq(status, JStr(<<"s", "u", "c", "c", "e", "s", "s">>))
  THEN "success"
  ELSE IF StrictEq(status, JBool(FALSE)) \/ StrictEq(success, JBool(FALSE))
          \/ StrictEq(status, JStr(<<"f", "a", "i", "l", "e", "d">>))
  THEN "failed"
  ELSE "pending"

\* timestamp || time || datetime, else block?.timestamp where that is truthy.
MappedTxTimestamp(given, ofBlock) ==
  IF ~Truthy(given) /\ Truthy(ofBlock) THEN ofBlock ELSE given

\* The end of mapTransaction, from the fields extracted.
MappedTransaction(hash, status, blockHeight, timestamp, size) ==
  IF ~Truthy(hash) THEN None
  ELSE Some([hash |-> hash, status |-> status, blockHeight |-> blockHeight,
             timestamp |-> timestamp, size |-> size])

\* mapTransaction from `const txData = tx.transaction || tx.extrinsic || tx` on.
mapTxData(txData) ==
  MappedTransaction(
    Or(Or(Get(txData, "hash"), Get(txData, "txHash")), Get(txData, "id")),
    MappedStatus(Get(txData, "status"), Get(txData, "success")),
    Or(Or(Get(txData, "blockHeight"), Get(txData, "blockNumber")),
       Coalesce(OptGet(Get(txData, "block"), "height"), JUndef)),
    MappedTxTimestamp(
      Or(Or(Get(txData, "timestamp"), Get(txData, "time")), Get(txData, "datetime")),
      OptGet(Get(txData, "block"), "timestamp")),
    Or(Or(Get(txData, "size"), Get(txData, "length")), JUndef))

\* mapTransaction(tx): the Transaction, or None where the code returns null.
mapTransaction(tx) ==
  IF Nullish(tx) THEN None
  ELSE mapTxData(Or(Or(Get(tx, "transaction"), Get(tx, "extrinsic")), tx))

\* list.map(f).filter(x => x !== null) for a mapping f that yields an option.
MapFilter(list, f(_)) ==
  LET mapped == [i \in 1..Len(list) |-> f(list[i])]
      notNull(m) == m # None
      kept == SelectSeq(mapped, notNull)
  IN [i \in 1..Len(kept) |-> Val(kept[i])]

-----------------------------------------------------------------------------
(* The indexer, as the HttpProvider sees it (environment)                  *)

\* The indexer holds `indexer.n` blocks, of heights `indexer.top` downward, and
\* as many transactions; the record at position `indexer.bad` (if any) lacks
\* its hash.  IndexerTop is the top of a long chain.
IndexerTop == 499

Str_success == <<"s", "u", "c", "c", "e", "s", "s">>

IndexerBlockHash(height) == <<"0", "x", "i">> \o NatToString(height)
IndexerTxHash(i) == <<"0", "x", "t">> \o NatToString(i)

IndexerBlockRecord(i) ==
  LET height == indexer.top - (i - 1)
  IN IF i = indexer.bad
     THEN JObj([height |-> JNum(height), timestamp |-> JStr(<<"t">>)])
     ELSE JObj([height |-> JNum(height), hash |-> JStr(IndexerBlockHash(height)),
                timestamp |-> JStr(<<"t">>), extrinsicsCount |-> JNum(i % 3)])

IndexerTxRecord(i) ==
  LET height == indexer.top - ((i - 1) \div 2)
  IN IF i = indexer.bad
     THEN JObj([status |-> JStr(Str_success), blockHeight |-> JNum(height)])
     ELSE JObj([hash |-> JStr(IndexerTxHash(i)), status |-> JStr(Str_success),
                blockHeight |-> JNum(height), timestamp |-> JStr(<<"t">>),
                size |-> JNum(100 + i)])

IndexerBlocks == [i \in 1..indexer.n |-> IndexerBlockRecord(i)]
IndexerTxs == [i \in 1..indexer.n |-> IndexerTxRecord(i)]

\* The transactions the indexer holds for the block an id names.
IndexerBlockTxs(id) ==
  LET ofBlock(r) == \/ IsAllDigits(id) /\ r.v.blockHeight = JNum(ParseInt(id).val)
                    \/ id = IndexerBlockHash(r.v.blockHeight.v)
  IN SelectSeq(IndexerTxs, ofBlock)

\* The block the indexer holds for an id, or null.
IndexerBlock(id) ==
  LET named(r) == \/ IsAllDigits(id) /\ r.v.height = JNum(ParseInt(id).val)
                  \/ id = IndexerBlockHash(r.v.height.v)
      hits == SelectSeq(IndexerBlocks, named)
  IN IF hits = <<>> THEN JNull ELSE hits[1]

\* The transaction the indexer holds for a hash, or null.
IndexerTx(hash) ==
  LET named(r) == "hash" \in DOMAIN r.v /\ r.v.hash = JStr(hash)
      hits == SelectSeq(IndexerTxs, named)
  IN IF hits = <<>> THEN JNull ELSE hits[1]

\* The addresses the indexer knows, and its record of one.
IndexerAddresses == {<<"a">>}

IndexerAddress(addr) ==
  IF addr \in IndexerAddresses
  THEN JObj([address |-> JStr(addr), balance |-> JStr(<<"1", "0", "0">>),
             txCount |-> JNum(3)])
  ELSE JNull

\* How the indexer answers one query.  A failure is a transport error
\* ("network"), a non-OK status ("http") or a GraphQL errors payload
\* ("errors").  An answer is a body {data: ...} whose data is:
\*   "honest"      what the indexer holds for the request, under the field asked for
\*   "overlong"    a list with one record more than the requested limit
\*   "empty"       an empty list, or null for a single entity
\*   "notList"     a string where the list or the entity is expected
\*   "nested"      the honest answer one level down, under data.data
\*   "unmappable"  records that lack every mandatory field
\*   "noData"      nothing: the body has no data field
FailKinds == {"network", "http", "errors"}
PayloadKinds == {"honest", "overlong", "empty", "notList", "nested", "unmappable", "noData"}

\* The data of an answer to a list query: `field` is the field asked for,
\* `held` the list the indexer holds for the request, from `offset` on.
ListPayload(kind, field, held, offset, limit) ==
  LET from == [nan |-> FALSE, val |-> offset]
      window(n) == Slice(held, from, [nan |-> FALSE, val |-> offset + n])
  IN CASE kind = "honest" -> JObj(field :> JList(window(limit)))
       [] kind = "overlong" -> JObj(field :> JList(window(limit + 1)))
       [] kind = "empty" -> JObj(field :> JList(<<>>))
       [] kind = "notList" -> JObj(field :> JStr(<<"x">>))
       [] kind = "nested" -> JObj([data |-> JObj(field :> JList(window(limit)))])
       [] kind = "unmappable" ->
            JObj(field :> JList(<<JNull, JObj([height |-> JNum(1)]), JNum(0)>>))
       [] OTHER -> JUndef

\* The data of an answer to a single-entity query.
EntityPayload(kind, field, held) ==
  CASE kind \in {"honest", "overlong"} -> JObj(field :> held)
    [] kind = "empty" -> JObj(field :> JNull)
    [] kind = "notList" -> JObj(field :> JStr(<<"x">>))
    [] kind = "nested" -> JObj([data |-> JObj(field :> held)])
    [] kind = "unmappable" -> JObj(field :> JObj([height |-> JNum(1)]))
    [] OTHER -> JUndef

\* What the three candidate queries of a probe meet: the candidates before
\* `answered` fail, that one and the later ones would be answered with `data`;
\* answered = 0: all three fail.
Responses(answered, kind, data) ==
  [k \in 1..3 |->
     IF answered = 0 THEN [fail |-> kind, data |-> JNull]
     ELSE IF k < answered THEN [fail |-> "errors", data |-> JNull]
     ELSE [fail |-> "none", data |-> data]]

\* The field under which the candidate that is answered asks for its list.
FieldOf(fields, answered) == fields[IF answered = 0 THEN 1 ELSE answered]

Ios ==
  [answered : {0}, kind : FailKinds] \cup [answered : {1, 3}, kind : PayloadKinds]

-----------------------------------------------------------------------------
(* Indexer-backed HttpProvider: graphQL, tryQueries                        *)

\* graphQL(query, variables), given what the query meets: null without an
\* INDEXER_URL, on a transport error, on a non-OK status and on an errors
\* payload; result.data otherwise.
graphQL(response) ==
  IF ~env.INDEXER_URL THEN JNull
  ELSE IF response.fail # "none" THEN JNull
  ELSE response.data

\* tryQueries(queries): for (q of queries) { result = graphQL(q);
\*   if (result !== null) return result }  return null
RECURSIVE tryQueries(_)
tryQueries(responses) ==
  IF responses = <<>> THEN JNull
  ELSE LET result == graphQL(Head(responses))
       IN IF result.t # "null" THEN result ELSE tryQueries(Tail(responses))

\* The number of candidates tryQueries has issued when it returns.
RECURSIVE Issued(_)
Issued(responses) ==
  IF responses = <<>> THEN 0
  ELSE IF graphQL(Head(responses)).t # "null" THEN 1
  ELSE 1 + Issued(Tail(responses))

-----------------------------------------------------------------------------
(* tryQueries, one await at a time                                         *)

\* Every operation hands tryQueries three candidate queries.
NumCandidates == 3

\* What a candidate can meet: a transport error, a non-OK status, an errors
\* payload, a body with data ("honest"), a body without a data field ("noData").
ProbeKinds == FailKinds \cup {"honest", "noData"}

ProbeResponse(kind) ==
  IF kind \in FailKinds THEN [fail |-> kind, data |-> JNull]
  ELSE [fail |-> "none", data |-> ListPayload(kind, "blocks", <<>>, 0, PageSize)]

ProbeOthers == <<connVars, env, clock, providers, indexer, nodeVars, call>>

\* An operation calls tryQueries(queries); the for-of loop stands at the
\* first candidate.
TryQueriesCall ==
  /\ probe.at = "idle"
  /\ Instances("http") # {}
  /\ \E kinds \in [1..NumCandidates -> ProbeKinds] :
       probe' = [NoProbe EXCEPT !.at = "loop", !.k = 1,
                                !.responses = [k \in 1..NumCandidates |->
                                                 ProbeResponse(kinds[k])]]
  /\ UNCHANGED ProbeOthers

\* The loop of tryQueries goes on from `probe` with candidate k answered null.
ProbeNext_(pr) == [pr EXCEPT !.at = "loop", !.k = pr.k + 1]

\* graphQL(query, variables) up to its await: `if (!INDEXER_URL) return null`
\* (and `result !== null` fails, the loop goes on), else fetch is called.
GraphQLCall ==
  /\ probe.at = "loop" /\ probe.k <= Len(probe.responses)
  /\ probe' = IF ~env.INDEXER_URL THEN ProbeNext_(probe)
              ELSE [probe EXCEPT !.at = "fetching", !.issued = Append(@, probe.k)]
  /\ UNCHANGED ProbeOthers

\* The fetch of candidate k completes: graphQL returns null or result.data,
\* and tryQueries returns it unless it is null.
GraphQLReturn ==
  /\ probe.at = "fetching"
  /\ probe' = IF graphQL(probe.responses[probe.k]).t # "null"
              THEN [probe EXCEPT !.at = "returned", !.seen = Append(@, probe.k),
                                 !.result = graphQL(probe.responses[probe.k])]
              ELSE ProbeNext_([probe EXCEPT !.seen = Append(@, probe.k)])
  /\ UNCHANGED ProbeOthers

\* The loop is over: `return null`.
TryQueriesReturnNull ==
  /\ probe.at = "loop" /\ probe.k > Len(probe.responses)
  /\ probe' = [probe EXCEPT !.at = "returned", !.result = JNull]
  /\ UNCHANGED ProbeOthers

\* The caller: `if (!result) return this.mockProvider.<operation>(...)`.
CallerBranch ==
  /\ probe.at = "returned"
  /\ probe' = [probe EXCEPT !.at = "done", !.fellBack = ~Truthy(probe.result)]
  /\ UNCHANGED ProbeOthers

\* The operation has returned.
ProbeEnd ==
  /\ probe.at = "done"
  /\ probe' = NoProbe
  /\ UNCHANGED ProbeOthers

ProbeOps ==
  \/ TryQueriesCall
  \/ GraphQLCall
  \/ GraphQLReturn
  \/ TryQueriesReturnNull
  \/ CallerBranch
  \/ ProbeEnd

-----------------------------------------------------------------------------
(* Indexer-backed HttpProvider: the eight operations                       *)

\* The outcome of the try block of an operation: a value returned, with where
\* it came from, or an exception thrown.
Done(value, source) == [threw |-> FALSE, value |-> value, source |-> source]
Threw == [threw |-> TRUE, value |-> <<>>, source |-> "none"]

\* HttpCatch without the catch clause: the exception reaches the caller.
HttpCatch_Rethrow(body, fallback) ==
  IF body.threw THEN [rejected |-> TRUE, value |-> <<>>, source |-> "none"]
  ELSE [rejected |-> FALSE, value |-> body.value, source |-> body.source]

\* try { body } catch (error) { return this.mockProvider.<operation>(...) }
HttpCatch(body, fallback) ==
  IF body.threw THEN [rejected |-> FALSE, value |-> fallback, source |-> "mock"]
  ELSE [rejected |-> FALSE, value |-> body.value, source |-> body.source]

\* result.blocks || result.data?.blocks || []
BlocksData(result) ==
  Or(Or(Get(result, "blocks"), OptGet(Get(result, "data"), "blocks")), JList(<<>>))

\* result.<first> || result.extrinsics || result.data?.<first>
\*   || result.data?.extrinsics || []
TxsData(result, first) ==
  Or(Or(Or(Or(Get(result, first), Get(result, "extrinsics")),
           OptGet(Get(result, "data"), first)),
        OptGet(Get(result, "data"), "extrinsics")),
     JList(<<>>))

\* data.map(...).filter(...): a TypeError is thrown where data has no map.
MappedList(data, f(_)) ==
  IF data.t # "list" THEN Threw ELSE Done(MapFilter(data.v, f), "indexer")

\* items.length === limit ? (offset + limit).toString() : undefined
HttpNextCursor(items, offset) ==
  IF Len(items) = PageSize
  THEN Some(IF offset.nan THEN <<"N", "a", "N">> ELSE NumToString(offset.val + PageSize))
  ELSE None

\* The try block of getLatestBlocks and getLatestTransactions, from the
\* result of tryQueries and the mapped list.
LatestBody(result, list, fallback) ==
  IF ~Truthy(result) THEN Done(fallback, "mock")
  ELSE IF list.threw THEN Threw
  ELSE IF Len(list.value) > 0 THEN list
  ELSE Done(fallback, "mock")

\* The try block of getBlocksPage and getTransactionsPage.
PageBody(result, items, offset, fallback) ==
  IF ~Truthy(result) THEN Done(fallback, "mock")
  ELSE IF items.threw THEN Threw
  ELSE IF Len(items.value) = 0 THEN Done(fallback, "mock")
  ELSE Done(Page(items.value, HttpNextCursor(items.value, offset)), "indexer")

\* The try block of getBlockByHashOrHeight and getTransactionByHash, from the
\* entity extracted and its mapping.
EntityBody(result, entityData, mapped, fallback) ==
  IF ~Truthy(result) THEN Done(fallback, "mock")
  ELSE IF ~Truthy(entityData) THEN Done(fallback, "mock")
  ELSE IF mapped = None THEN Done(fallback, "mock")
  ELSE Done(mapped, "indexer")

LatestBlocksOf(result, fallback, now) ==
  LET toBlock(b) == mapBlock(b, now)
  IN HttpCatch(LatestBody(result, MappedList(BlocksData(result), toBlock), fallback),
               fallback)

\* getLatestBlocks(limit)
HttpGetLatestBlocks(p, limit, responses, now) ==
  LatestBlocksOf(tryQueries(responses), MockGetLatestBlocks(mock(p), limit), now)

LatestTransactionsOf(result, fallback) ==
  HttpCatch(LatestBody(result, MappedList(TxsData(result, "transactions"), mapTransaction),
                       fallback),
            fallback)

\* getLatestTransactions(limit)
HttpGetLatestTransactions(p, limit, responses) ==
  LatestTransactionsOf(tryQueries(responses), MockGetLatestTransactions(mock(p), limit))

BlocksPageOf(result, offset, fallback, now) ==
  LET toBlock(b) == mapBlock(b, now)
  IN HttpCatch(PageBody(result, MappedList(BlocksData(result), toBlock), offset, fallback),
               fallback)

\* getBlocksPage(cursor)
HttpGetBlocksPage(p, cursor, responses, now) ==
  BlocksPageOf(tryQueries(responses), CursorOffset(cursor),
               MockGetBlocksPage(mock(p), cursor), now)

HttpIdIsHeight(id) == IsAllDigits(id)

\* result.block || result.data?.block
BlockData(result) == Or(Get(result, "block"), OptGet(Get(result, "data"), "block"))

BlockOf(result, fallback, now) ==
  HttpCatch(EntityBody(result, BlockData(result), mapBlock(BlockData(result), now),
                       fallback),
            fallback)

\* getBlockByHashOrHeight(id)
HttpGetBlockByHashOrHeight(p, id, responses, now) ==
  BlockOf(tryQueries(responses), MockGetBlockByHashOrHeight(mock(p), id), now)

TransactionsPageOf(result, offset, fallback) ==
  HttpCatch(PageBody(result, MappedList(TxsData(result, "transactions"), mapTransaction),
                     offset, fallback),
            fallback)

\* getTransactionsPage(cursor)
HttpGetTransactionsPage(p, cursor, responses) ==
  TransactionsPageOf(tryQueries(responses), CursorOffset(cursor),
                     MockGetTransactionsPage(mock(p), cursor))

\* result.transaction || result.extrinsic || result.data?.transaction
\*   || result.data?.extrinsic
TxData(result) ==
  Or(Or(Or(Get(result, "transaction"), Get(result, "extrinsic")),
        OptGet(Get(result, "data"), "transaction")),
     OptGet(Get(result, "data"), "extrinsic"))

TransactionOf(result, fallback) ==
  HttpCatch(EntityBody(result, TxData(result), mapTransaction(TxData(result)), fallback),
            fallback)

\* getTransactionByHash(hash)
HttpGetTransactionByHash(p, hash, responses) ==
  TransactionOf(tryQueries(responses), MockGetTransactionByHash(mock(p), hash))

\* balance.toString() for a balance that is a string or a number.
BalanceString(x) ==
  CASE x.t = "str" -> x
    [] x.t = "num" -> JStr(NumToString(x.v))
    [] OTHER -> JStr(<<"N", "a", "N">>)

\* The balance of an address record: its balance where that is a string or a
\* number, else balances.free where that is truthy.
BalanceOf(balance, free) ==
  IF balance.t \in {"str", "num", "nan"} THEN BalanceString(balance)
  ELSE IF Truthy(free) THEN BalanceString(free)
  ELSE JUndef

\* result.address || result.account || result.data?.address || result.data?.account
AddressData(result) ==
  Or(Or(Or(Get(result, "address"), Get(result, "account")),
        OptGet(Get(result, "data"), "address")),
     OptGet(Get(result, "data"), "account"))

\* The summary built from an address record.
SummaryOf(addressData, addr) ==
  Some([address |-> Or(Or(Get(addressData, "address"), Get(addressData, "id")),
                       JStr(addr)),
        balance |-> BalanceOf(Get(addressData, "balance"),
                              OptGet(Get(addressData, "balances"), "free")),
        txCount |-> Or(Or(Get(addressData, "txCount"),
                          Get(addressData, "transactionCount")),
                       Get(addressData, "transactionsCount"))])

AddressSummaryBody(result, addressData, addr, fallback) ==
  IF ~Truthy(result) THEN Done(fallback, "mock")
  ELSE IF ~Truthy(addressData) THEN Done(fallback, "mock")
  ELSE Done(SummaryOf(addressData, addr), "indexer")

AddressSummaryOf(result, addr, fallback) ==
  HttpCatch(AddressSummaryBody(result, AddressData(result), addr, fallback), fallback)

\* getAddressSummary(addr)
HttpGetAddressSummary(p, addr, responses) ==
  AddressSummaryOf(tryQueries(responses), addr, MockGetAddressSummary(mock(p), addr))

\* Verified without the fallback to the MockProvider: always the empty page.
Verified_Unchecked(block, fallback) == Done(Page(<<>>, None), "none")

\* const block = await this.getBlockByHashOrHeight(id);
\* if (!block) return { items: [], nextCursor: undefined };
\* return this.mockProvider.getBlockTransactions(id, cursor)
Verified(block, fallback) ==
  IF block.value = None THEN Done(Page(<<>>, None), "none") ELSE Done(fallback, "mock")

\* The try block of getBlockTransactions; `block` is the outcome of the inner
\* this.getBlockByHashOrHeight(id).
BlockTransactionsBody(result, items, block, offset, fallback) ==
  IF ~Truthy(result) THEN Verified(block, fallback)
  ELSE IF items.threw THEN Threw
  ELSE IF Len(items.value) = 0 THEN Verified(block, fallback)
  ELSE Done(Page(items.value, HttpNextCursor(items.value, offset)), "indexer")

BlockTransactionsOf(result, block, offset, fallback) ==
  HttpCatch(
    BlockTransactionsBody(
      result, MappedList(TxsData(result, "blockTransactions"), mapTransaction),
      block, offset, fallback),
    fallback)

\* getBlockTransactions(id, cursor).  `responses2` is what the queries of the
\* inner this.getBlockByHashOrHeight(id) meet.
HttpGetBlockTransactions(p, id, cursor, responses, responses2, now) ==
  BlockTransactionsOf(tryQueries(responses),
                      HttpGetBlockByHashOrHeight(p, id, responses2, now),
                      CursorOffset(cursor),
                      MockGetBlockTransactions(mock(p), id, cursor))

\* Whether getBlockTransactions makes its inner call: no result, or no item.
InnerLookup(result) ==
  \/ ~Truthy(result)
  \/ /\ TxsData(result, "blockTransactions").t = "list"
     /\ MapFilter(TxsData(result, "blockTransactions").v, mapTransaction) = <<>>

\* Inputs of the operations of an indexer-backed instance: ids, hashes and
\* addresses the indexer holds, ones only the mock corpus holds, and ones
\* neither holds.
HttpIdInputs(p) ==
  {NatToString(indexer.top), NatToString(LatestHeight), <<"9", "9">>,
   NatToString(LatestHeight) \o <<"a", "b", "c">>,
   IndexerBlockHash(indexer.top), mockBlocks(mock(p))[1].hash}

HttpTxHashInputs(p) ==
  {IndexerTxHash(1), <<"a", "b", "c">>, mockTransactions(mock(p))[1].hash}

\* What the indexer may do on a call: nothing is asked without an INDEXER_URL.
IoChoices == IF env.INDEXER_URL THEN Ios ELSE {NoIo}

\* Along a paging chain the indexer keeps behaving as on the chain's first call.
ChainIos(follow) ==
  IF follow THEN {io \in IoChoices : io.answered = call.io.answered /\ io.kind = call.io.kind}
  ELSE IoChoices

\* The inner lookup of getBlockTransactions meets a failing or an honest indexer.
Io2Choices ==
  IF env.INDEXER_URL
  THEN {[answered |-> 0, kind |-> "network"], [answered |-> 1, kind |-> "honest"]}
  ELSE {NoIo}

\* The cursors getBlockTransactions is first called with.
BlockTxCursors == {None, Some(<<"2", "0">>), Some(<<"a", "b", "c">>)}

\* An indexer can serve a window of its list only from an offset that is a
\* natural number.
Servable(io, offset) ==
  \/ io.answered = 0
  \/ io.kind \notin {"honest", "overlong", "nested"}
  \/ ~offset.nan /\ offset.val >= 0

\* The offset the indexer is asked for (0 where it is not a number).
Asked(offset) == IF offset.nan THEN 0 ELSE offset.val

\* The id the mapped or the fallback result was resolved by.
HttpResolvedAs(id, source) ==
  IF source = "mock"
  THEN IF MockIdIsHeight(id) THEN "height" ELSE "hash"
  ELSE IF HttpIdIsHeight(id) THEN "height" ELSE "hash"

\* The record of a completed operation of an indexer-backed instance, from
\* the outcome r of the operation.
HttpCompleted(op, inst, id, cursor, limit, r, io, follow) ==
  Completed("http", op, inst, id, cursor, limit,
            IF op \in {"getBlockByHashOrHeight", "getBlockTransactions"}
            THEN HttpResolvedAs(id, r.source) ELSE "none",
            r.rejected, r.value, r.source, io, follow)

CallHttpGetLatestBlocks ==
  /\ call = NoCall
  /\ \E p \in Instances("http"), limit \in LimitInputs, io \in IoChoices :
       /\ call' = HttpCompleted(
            "getLatestBlocks", p, <<>>, None, limit,
            HttpGetLatestBlocks(
              p, limit,
              Responses(io.answered, io.kind,
                        ListPayload(io.kind, "blocks", IndexerBlocks, 0, limit)),
              Instants[clock]),
            io, FALSE)
       /\ UNCHANGED Others

TxField == <<"transactions", "extrinsics", "transactions">>

CallHttpGetLatestTransactions ==
  /\ call = NoCall
  /\ \E p \in Instances("http"), limit \in LimitInputs, io \in IoChoices :
       /\ call' = HttpCompleted(
            "getLatestTransactions", p, <<>>, None, limit,
            HttpGetLatestTransactions(
              p, limit,
              Responses(io.answered, io.kind,
                        ListPayload(io.kind, FieldOf(TxField, io.answered), IndexerTxs,
                                    0, limit))),
            io, FALSE)
       /\ UNCHANGED Others

CallHttpGetBlocksPage ==
  \E p \in Instances("http"), follow \in BOOLEAN :
    \E io \in ChainIos(follow), cursor \in Cursors(follow, "http", "getBlocksPage", p, <<>>) :
      /\ Servable(io, CursorOffset(cursor))
      /\ call' = HttpCompleted(
           "getBlocksPage", p, <<>>, cursor, 0,
           HttpGetBlocksPage(
             p, cursor,
             Responses(io.answered, io.kind,
                       ListPayload(io.kind, "blocks", IndexerBlocks,
                                   Asked(CursorOffset(cursor)), PageSize)),
             Instants[clock]),
           io, follow)
      /\ UNCHANGED Others

CallHttpGetBlockByHashOrHeight ==
  /\ call = NoCall
  /\ \E p \in Instances("http"), io \in IoChoices :
       \E id \in HttpIdInputs(p) :
         /\ call' = HttpCompleted(
              "getBlockByHashOrHeight", p, id, None, 0,
              HttpGetBlockByHashOrHeight(
                p, id,
                Responses(io.answered, io.kind,
                          EntityPayload(io.kind, "block", IndexerBlock(id))),
                Instants[clock]),
              io, FALSE)
         /\ UNCHANGED Others

CallHttpGetTransactionsPage ==
  \E p \in Instances("http"), follow \in BOOLEAN :
    \E io \in ChainIos(follow),
       cursor \in Cursors(follow, "http", "getTransactionsPage", p, <<>>) :
      /\ Servable(io, CursorOffset(cursor))
      /\ call' = HttpCompleted(
           "getTransactionsPage", p, <<>>, cursor, 0,
           HttpGetTransactionsPage(
             p, cursor,
             Responses(io.answered, io.kind,
                       ListPayload(io.kind, FieldOf(TxField, io.answered), IndexerTxs,
                                   Asked(CursorOffset(cursor)), PageSize))),
           io, follow)
      /\ UNCHANGED Others

CallHttpGetTransactionByHash ==
  /\ call = NoCall
  /\ \E p \in Instances("http"), io \in IoChoices :
       \E hash \in HttpTxHashInputs(p) :
         /\ call' = HttpCompleted(
              "getTransactionByHash", p, hash, None, 0,
              HttpGetTransactionByHash(
                p, hash,
                Responses(io.answered, io.kind,
                          EntityPayload(io.kind,
                                        FieldOf(<<"transaction", "extrinsic", "transaction">>,
                                                io.answered),
                                        IndexerTx(hash)))),
              io, FALSE)
         /\ UNCHANGED Others

CallHttpGetAddressSummary ==
  /\ call = NoCall
  /\ \E p \in Instances("http"), io \in IoChoices, addr \in AddrInputs :
       /\ call' = HttpCompleted(
            "getAddressSummary", p, addr, None, 0,
            HttpGetAddressSummary(
              p, addr,
              Responses(io.answered, io.kind,
                        EntityPayload(io.kind,
                                      FieldOf(<<"address", "account", "account">>,
                                              io.answered),
                                      IndexerAddress(addr)))),
            io, FALSE)
       /\ UNCHANGED Others

\* What the candidate queries of getBlockTransactions meet.
BlockTxResponses(io, id, cursor) ==
  Responses(io.answered, io.kind,
            ListPayload(io.kind,
                        FieldOf(<<"blockTransactions", "blockTransactions", "extrinsics">>,
                                io.answered),
                        IndexerBlockTxs(id), Asked(CursorOffset(cursor)), PageSize))

CallHttpGetBlockTransactions ==
  \E p \in Instances("http"), follow \in BOOLEAN, io2 \in Io2Choices :
    \E io \in ChainIos(follow), id \in HttpIdInputs(p) :
      \E cursor \in Cursors(follow, "http", "getBlockTransactions", p, id) :
        /\ Servable(io, CursorOffset(cursor))
        /\ follow \/ cursor \in BlockTxCursors
        /\ \/ InnerLookup(tryQueries(BlockTxResponses(io, id, cursor)))
           \/ io2 = CHOOSE x \in Io2Choices : TRUE
        /\ call' = HttpCompleted(
             "getBlockTransactions", p, id, cursor, 0,
             HttpGetBlockTransactions(
               p, id, cursor, BlockTxResponses(io, id, cursor),
               Responses(io2.answered, io2.kind,
                         EntityPayload(io2.kind, "block", IndexerBlock(id))),
               Instants[clock]),
             io @@ [inner |-> io2.kind], follow)
        /\ UNCHANGED Others

HttpOps ==
  \/ CallHttpGetLatestBlocks
  \/ CallHttpGetLatestTransactions
  \/ CallHttpGetBlocksPage
  \/ CallHttpGetBlockByHashOrHeight
  \/ CallHttpGetTransactionsPage
  \/ CallHttpGetTransactionByHash
  \/ CallHttpGetAddressSummary
  \/ CallHttpGetBlockTransactions

-----------------------------------------------------------------------------
(* Specifications                                                          *)

ConnInit ==
  /\ apiInstance = None
  /\ disconnectHandler = None
  /\ handles = <<>>
  /\ pc = [c \in Callers |-> Idle]

NodeInit ==
  /\ tip = 0
  /\ chain = <<>>

\* No endpoint configured: getProvider() builds MockProviders.
MockInit ==
  /\ ConnInit /\ NodeInit
  /\ env = [INDEXER_URL |-> FALSE, RPC_URL |-> FALSE]
  /\ clock = 1
  /\ providers = <<>>
  /\ indexer = <<>>
  /\ call = NoCall
  /\ probe = NoProbe

MockNext == Tick \/ GetProvider \/ MockOps \/ Return

SpecMock == MockInit /\ [][MockNext]_vars

\* The connection manager alone, with its callers and the socket events.
ConnInitAll ==
  /\ ConnInit /\ NodeInit
  /\ env = [INDEXER_URL |-> FALSE, RPC_URL |-> TRUE]
  /\ clock = 1
  /\ providers = <<>>
  /\ indexer = <<>>
  /\ call = NoCall
  /\ probe = NoProbe

SpecConn == ConnInitAll /\ [][ConnNext]_vars

\* One RPC-backed HttpProvider (RPC_URL configured) over a node whose chain
\* starts with its genesis block and grows.
\* A long chain: empty blocks, but for the blocks at the depths just inside
\* and just outside the two scan bounds, which hold a page of extrinsics.
LongTip == 501

LongChain ==
  [i \in 1..(LongTip + 1) |->
     IF LongTip - (i - 1) \in {MaxScanBlocks - 1, MaxScanBlocks,
                               MaxScanBlocksByHash - 1, MaxScanBlocksByHash}
     THEN [count |-> PageSize, log |-> "success"]
     ELSE [count |-> 0, log |-> "none"]]

RpcInit ==
  /\ ConnInit
  /\ \/ tip = 0 /\ chain \in {<<b>> : b \in BlockShapes}
     \/ tip = LongTip /\ chain = LongChain
  /\ env = [INDEXER_URL |-> FALSE, RPC_URL |-> TRUE]
  /\ clock = 1
  /\ providers = <<[kind |-> "rpc", builtAt |-> 1]>>
  /\ indexer = <<>>
  /\ call = NoCall
  /\ probe = NoProbe

RpcNext == NewBlock \/ RpcOps \/ Return

SpecRpc == RpcInit /\ [][RpcNext]_vars

\* One indexer-backed HttpProvider, constructed with INDEXER_URL or RPC_URL
\* configured, over an indexer that holds 20, 21 or 40 records of a long
\* chain, or the 20 blocks of a chain that has no more (heights 19 down to 0).
IndexerSizes == {PageSize, PageSize + 1, 2 * PageSize}

IndexerInit ==
  /\ ConnInit
  /\ NodeInit
  /\ env \in {[INDEXER_URL |-> TRUE, RPC_URL |-> FALSE],
              [INDEXER_URL |-> FALSE, RPC_URL |-> TRUE]}
  /\ clock = 1
  /\ providers = <<[kind |-> "http", builtAt |-> 1]>>
  /\ indexer \in [n : IndexerSizes, bad : {0, 2}, top : {IndexerTop}]
                   \cup {[n |-> PageSize, bad |-> 2, top |-> PageSize - 1]}
  /\ call = NoCall
  /\ probe = NoProbe

IndexerNext == HttpOps \/ Return

SpecIndexer == IndexerInit /\ [][IndexerNext]_vars

\* Provider construction under every configuration of the two endpoints,
\* with either getProvider(), and the operations of the instances built; the
\* node has its genesis block and the indexer 21 records.
ProviderInit ==
  /\ ConnInit
  /\ tip = 0
  /\ chain = <<[count |-> PageSize, log |-> "success"]>>
  /\ env \in [INDEXER_URL : BOOLEAN, RPC_URL : BOOLEAN]
  /\ clock = 1
  /\ providers = <<>>
  /\ indexer = [n |-> PageSize + 1, bad |-> 2, top |-> IndexerTop]
  /\ call = NoCall
  /\ probe = NoProbe

ProviderNext == GetProvider \/ GetRpcProvider \/ MockOps \/ HttpOps \/ RpcOps \/ Return

SpecProvider == ProviderInit /\ [][ProviderNext]_vars

\* The whole program: any of the configurations above, and every operation.
\* One indexer-backed HttpProvider whose operations probe the indexer, the
\* awaits of tryQueries taken one at a time.
ProbeInit ==
  /\ ConnInit
  /\ NodeInit
  /\ env \in {[INDEXER_URL |-> TRUE, RPC_URL |-> FALSE],
              [INDEXER_URL |-> FALSE, RPC_URL |-> TRUE]}
  /\ clock = 1
  /\ providers = <<[kind |-> "http", builtAt |-> 1]>>
  /\ indexer = <<>>
  /\ call = NoCall
  /\ probe = NoProbe

ProbeNext == ProbeOps

SpecProbe == ProbeInit /\ [][ProbeNext]_vars

\* Paging through the blocks of a live chain: each getBlocksPage call reads
\* the tip anew (getTipInfo), and blocks are finalized between the calls of a
\* chain of pages as well.
MaxAdvance == 1

NewBlockBetweenPages ==
  /\ tip < LongTip + MaxAdvance
  /\ \E b \in BlockShapes : chain' = Append(chain, b)
  /\ tip' = tip + 1
  /\ UNCHANGED <<connVars, env, clock, providers, indexer, call, probe>>

PagingInit == RpcInit /\ tip = LongTip

PagingNext == NewBlockBetweenPages \/ CallRpcGetBlocksPage \/ Return

SpecPaging == PagingInit /\ [][PagingNext]_vars

Init == MockInit \/ ConnInitAll \/ RpcInit \/ IndexerInit \/ ProviderInit \/ ProbeInit

Next ==
  MockNext \/ ConnNext \/ RpcNext \/ IndexerNext \/ ProviderNext \/ ProbeNext
    \/ PagingNext

Spec == Init /\ [][Next]_vars

-----------------------------------------------------------------------------
(* Claims about the Mock Generator and MockProvider                        *)

\* The corpus a MockProvider operation pages over.
MockList(op, p) ==
  IF op = "getBlocksPage" THEN mockBlocks(p) ELSE mockTransactions(p)

\* C3: following nextCursor from the absent cursor on MockProvider.getBlocksPage
\* (100 blocks) and getTransactionsPage (200 transactions), the items returned
\* so far are the corpus up to 20 per call, in corpus order; the chain ends
\* (nextCursor absent) exactly at the call that completes the corpus, which is
\* call number N / 20, so it ends after finitely many calls with every item
\* returned once and N items in total.
C3_MockPagingComplete ==
  (/\ call.backend = "mock"
   /\ call.op \in {"getBlocksPage", "getTransactionsPage"}
   /\ call.chainFrom = None)
  => LET list == MockList(call.op, mock(call.inst))
         N == Len(list)
     IN /\ N = (IF call.op = "getBlocksPage" THEN MockBlockCount ELSE MockTxCount)
        /\ call.chainCalls * PageSize <= N
        /\ call.chainItems = SubSeq(list, 1, call.chainCalls * PageSize)
        /\ (call.result.nextCursor = None) <=> (Len(call.chainItems) = N)

C3_Witness ==
  /\ call.backend = "mock" /\ call.op = "getTransactionsPage"
  /\ call.chainFrom = None
  /\ call.result.nextCursor = None
  /\ call.chainCalls = 10
  /\ Len(call.chainItems) = MockTxCount

\* C5: whatever the backend, an operation that takes an id resolves it as a
\* height iff the whole string consists of decimal digits, as a hash otherwise.
C5_IdResolutionUniform ==
  call.op \in {"getBlockByHashOrHeight", "getBlockTransactions"}
  => ((call.resolvedAs = "height") <=> IsAllDigits(call.id))

\* The fields C6 speaks of.
BlockKey(b) == <<b.height, b.hash, b.txCount>>
TxKey(t) == <<t.hash, t.status, t.size>>

CorpusKey(p) ==
  <<[i \in 1..MockBlockCount |-> BlockKey(mockBlocks(p)[i])],
    [i \in 1..MockTxCount |-> TxKey(mockTransactions(p)[i])]>>

\* C6: any two provider instances hold the same corpora (heights, hashes and
\* txCounts of the blocks; hashes, statuses and sizes of the transactions),
\* whenever each was constructed.
C6_CorpusDeterministic ==
  \A p, q \in DOMAIN providers : CorpusKey(mock(p)) = CorpusKey(mock(q))

-----------------------------------------------------------------------------
(* Claims about the connection manager                                     *)

InFlight == {c \in Callers : pc[c].at = "awaitCreate"}

\* C1: at any time at most one connection establishment is in flight, and no
\* handle the manager created is connected without being the cached handle.
C1_SingleConnection ==
  /\ Cardinality(InFlight) <= 1
  /\ \A h \in DOMAIN handles : IsConnected(h) => apiInstance = Some(h)

-----------------------------------------------------------------------------
(* Claims about the RPC-backed HttpProvider                                *)

\* The newest-first sequence of the operations of the blocks the scan can
\* reach: heights tip, tip - 1, ..., at most MaxScanBlocks of them, none below 0.
RECURSIVE OpsBetween(_, _)
OpsBetween(hi, lo) ==
  IF hi < lo THEN <<>>
  ELSE IF hi = lo THEN Reverse([i \in 1..chain[hi + 1].count |-> ExtHash(hi, i - 1)])
  ELSE LET mid == (hi + lo) \div 2
       IN OpsBetween(hi, mid + 1) \o OpsBetween(mid, lo)

ReachableOps(h, left) == OpsBetween(h, Max(0, h - left + 1))

\* C2: getTransactionsPage(cursor) at offset o returns a nextCursor iff more
\* than o + 20 operations are reachable by the scan, and then it is the
\* decimal string of o + 20.
C2_RpcNextCursor ==
  (/\ call.backend = "rpc" /\ call.op = "getTransactionsPage"
   /\ ~call.rejected
   /\ ~CursorOffset(call.cursor).nan /\ CursorOffset(call.cursor).val >= 0)
  => LET o == CursorOffset(call.cursor).val
         more == Len(ReachableOps(tip, MaxScanBlocks)) > o + PageSize
     IN /\ (call.result.nextCursor # None) <=> more
        /\ call.result.nextCursor # None
             => call.result.nextCursor = Some(NumToString(o + PageSize))

-----------------------------------------------------------------------------
(* Claims about the indexer-backed HttpProvider                            *)

\* What the MockProvider of instance c.inst returns for the operation and the
\* arguments of the completed call c.
MockResult(c) ==
  LET m == mock(c.inst)
  IN CASE c.op = "getLatestBlocks" -> MockGetLatestBlocks(m, c.limit)
       [] c.op = "getLatestTransactions" -> MockGetLatestTransactions(m, c.limit)
       [] c.op = "getBlocksPage" -> MockGetBlocksPage(m, c.cursor)
       [] c.op = "getBlockByHashOrHeight" -> MockGetBlockByHashOrHeight(m, c.id)
       [] c.op = "getTransactionsPage" -> MockGetTransactionsPage(m, c.cursor)
       [] c.op = "getTransactionByHash" -> MockGetTransactionByHash(m, c.id)
       [] c.op = "getAddressSummary" -> MockGetAddressSummary(m, c.id)
       [] OTHER -> MockGetBlockTransactions(m, c.id, c.cursor)

ListOps ==
  {"getLatestBlocks", "getLatestTransactions", "getBlocksPage", "getTransactionsPage",
   "getBlockTransactions"}

\* The records the mapping keeps of the indexer's blocks and transactions.
IndexerMapped(op) ==
  LET toBlock(b) == mapBlock(b, Instants[clock])
  IN IF op = "getBlocksPage" THEN MapFilter(IndexerBlocks, toBlock)
     ELSE MapFilter(IndexerTxs, mapTransaction)

\* C4: while the indexer answers every page query of a chain from the absent
\* cursor honestly, no page of the chain comes from the Mock Generator, the
\* items returned so far are the indexer's mappable items in order, and the
\* chain ends (nextCursor absent) only when all of them have been returned.
C4_IndexerPagingComplete ==
  (/\ call.backend = "http"
   /\ call.op \in {"getBlocksPage", "getTransactionsPage"}
   /\ call.chainFrom = None
   /\ call.chainKinds = {"honest"})
  => /\ call.chainSources = {"indexer"}
     /\ Len(call.chainItems) <= Len(IndexerMapped(call.op))
     /\ call.chainItems = SubSeq(IndexerMapped(call.op), 1, Len(call.chainItems))
     /\ call.result.nextCursor = None
          => Len(call.chainItems) = Len(IndexerMapped(call.op))

\* The cases in which C7 has the operation return the Mock Generator's result:
\* every candidate fails (transport, status, errors), the list field is not a
\* list, no record can be mapped, or the mapped result set is empty.
C7_FallbackCase ==
  \/ call.io.answered = 0
  \/ call.op \in ListOps /\ call.io.kind \in {"notList", "unmappable", "empty"}
  \/ /\ call.op \in {"getBlockByHashOrHeight", "getTransactionByHash"}
     /\ call.io.kind = "unmappable"

IndexerHoldsNone ==
  CASE call.op = "getBlockByHashOrHeight" -> IndexerBlock(call.id).t = "null"
    [] call.op = "getTransactionByHash" -> IndexerTx(call.id).t = "null"
    [] OTHER -> IndexerAddress(call.id).t = "null"

\* C8: a single-entity lookup that the indexer answers honestly with no
\* matching entity returns null.
C8_NotFoundIsNull ==
  (/\ call.backend = "http"
   /\ call.op \in {"getBlockByHashOrHeight", "getTransactionByHash", "getAddressSummary"}
   /\ call.io.answered >= 1 /\ call.io.kind = "honest"
   /\ IndexerHoldsNone)
  => call.result = None

\* Every candidate query of every probe of the completed call failed.
AllCandidatesFailed ==
  /\ call.io.answered = 0
  /\ call.op = "getBlockTransactions" => call.io.inner \in FailKinds \cup {"none"}

C10_PageAtMost20 ==
  (call.op \in PagedOps /\ ~call.rejected) => Len(call.result.items) <= PageSize

-----------------------------------------------------------------------------
(* Claims about lookups of the RPC-backed HttpProvider                     *)

\* The id of the completed RPC lookup matches nothing on the chain: a height
\* above the tip, a hash no block has, or a hash no extrinsic has.
RpcMatchesNothing ==
  CASE call.op \in {"getBlockByHashOrHeight", "getBlockTransactions"} ->
         IF IsAllDigits(call.id) THEN ParseInt(call.id).val > tip
         ELSE HeightsOfHash(call.id) = {}
    [] call.op = "getTransactionByHash" ->
         \A h \in 0..tip : \A i \in 1..chain[h + 1].count :
            ToLowerCase(ExtHash(h, i - 1)) # ToLowerCase(call.id)
    [] OTHER -> FALSE

\* C11: under the RPC backend a lookup whose id matches nothing does not
\* reject, and returns null (an empty page for getBlockTransactions).
C11_RpcNotFoundIsNull ==
  (call.backend = "rpc" /\ RpcMatchesNothing)
  => /\ ~call.rejected
     /\ IF call.op = "getBlockTransactions"
        THEN call.result.items = <<>> /\ call.result.nextCursor = None
        ELSE call.result = None

-----------------------------------------------------------------------------
(* Claims about the connection manager: reuse and re-establishment         *)

\* Caller c starts a getApi() call in this step.
Starts(c) == pc[c].at = "idle" /\ pc'[c].at # "idle"

\* C12, for one caller and one step:
\*  - a disconnect of the cached handle clears the cache;
\*  - a call that finds a cached, connected handle returns that handle and
\*    creates no connection;
\*  - a call that finds the cache empty starts exactly one connection, on a
\*    fresh handle, and when that connection is made it returns that handle,
\*    connected and cached;
\*  - a call that has started its connection starts no other one.
C12_Step(c) ==
  /\ (/\ apiInstance # None /\ IsConnected(Val(apiInstance))
      /\ handles'[Val(apiInstance)].state = "disconnected")
     => apiInstance' = None
  /\ (Starts(c) /\ apiInstance # None /\ IsConnected(Val(apiInstance)))
     => /\ pc'[c].at = "returned" /\ pc'[c].ret = apiInstance
        /\ handles' = handles /\ apiInstance' = apiInstance
  /\ (Starts(c) /\ apiInstance = None)
     => /\ pc'[c].at = "awaitCreate" /\ pc'[c].h = Len(handles) + 1
        /\ Len(handles') = Len(handles) + 1
        /\ handles'[Len(handles) + 1].state = "connecting"
  /\ (pc[c].at = "awaitCreate" /\ pc'[c] # pc[c])
     => /\ Len(handles') = Len(handles)
        /\ \/ pc'[c].at = "failed"
           \/ /\ pc'[c].at = "returned" /\ pc'[c].ret = Some(pc[c].h)
              /\ handles'[pc[c].h].state = "connected"
              /\ apiInstance' = Some(pc[c].h)
  /\ (pc[c].at \in {"returned", "failed"} /\ pc'[c] # pc[c])
     => pc'[c] = Idle /\ handles' = handles

\* C12: every step of the connection manager is as C12_Step says, and a
\* handle is created only by a call that starts or resumes.
C12_ReuseAndReestablish ==
  [][/\ \A c \in Callers : C12_Step(c)
     /\ Len(handles') > Len(handles)
        => \E c \in Callers : pc[c].at \in {"idle", "awaitDisconnect"}
                                /\ pc'[c].at = "awaitCreate"]_vars

\* The first handle has dropped, and a later call has made the second
\* connection and returned it.
C12_Witness ==
  /\ Len(handles) = 2
  /\ handles[1].state = "disconnected" /\ handles[2].state = "connected"
  /\ apiInstance = Some(2)
  /\ \E c \in Callers : /\ pc[c].at = "returned" /\ pc[c].ret = Some(2)
                         /\ \A d \in Callers \ {c} : pc[d].at = "idle"

-----------------------------------------------------------------------------
(* Claims about provider construction                                      *)

\* The backend the selection rule names for the configuration.
SelectedBackend ==
  IF env.INDEXER_URL THEN "http" ELSE IF env.RPC_URL THEN "rpc" ELSE "mock"

\* C13: getProvider() builds the Indexer Client when an indexer endpoint is
\* configured, the RPC Scanner when only a node endpoint is, the Mock
\* Generator when neither is, and then it does not fail; with only a node
\* endpoint no operation returns a result of the indexer or the Mock Generator.
C13_BackendSelection ==
  /\ \A p \in DOMAIN providers : providers[p].kind = SelectedBackend
  /\ (env.RPC_URL /\ ~env.INDEXER_URL /\ call.backend # "none")
     => call.source = "node"

\* C14: construction fails exactly when the backend selected needs an endpoint
\* that is empty: no indexer-backed instance exists without an INDEXER_URL, no
\* RPC-backed one without an RPC_URL, and a construction failed only where the
\* endpoint of its backend is empty.
C14_ConstructionFailsFast ==
  \A p \in DOMAIN providers :
    /\ providers[p].kind = "http" => env.INDEXER_URL
    /\ providers[p].kind = "rpc" => env.RPC_URL
    /\ providers[p].kind = "failed" => ~env.RPC_URL

-----------------------------------------------------------------------------
(* Claims about the RPC Scanner                                            *)

\* The status the event log of the block at height h gives the operation at
\* index i: success with a system.ExtrinsicSuccess of the ApplyExtrinsic
\* phase of i, else failed with such a system.ExtrinsicFailed, else pending.
HasMarker(h, i, method) ==
  \E k \in 1..Len(Events(h)) :
     /\ Events(h)[k].applyExtrinsic = Some(i)
     /\ Events(h)[k].section = "system"
     /\ Events(h)[k].method = method

StatusByLog(h, i) ==
  IF HasMarker(h, i, "ExtrinsicSuccess") THEN "success"
  ELSE IF HasMarker(h, i, "ExtrinsicFailed") THEN "failed"
  ELSE "pending"

\* The height of the block the id of the completed call names, if any.
RpcHeightOf(id) ==
  IF IsAllDigits(id) THEN {h \in {ParseInt(id).val} : h <= tip} ELSE HeightsOfHash(id)

\* C15: the transactions getBlockTransactions returns for a block whose
\* event log was read carry, each at its index, the status the log gives that
\* index.
C15_StatusCorrelation ==
  (/\ call.backend = "rpc" /\ call.op = "getBlockTransactions"
   /\ ~call.rejected /\ ~call.io.eventsFail
   /\ RpcHeightOf(call.id) # {}
   /\ ~CursorOffset(call.cursor).nan /\ CursorOffset(call.cursor).val >= 0)
  => LET h == CHOOSE x \in RpcHeightOf(call.id) : TRUE
         o == CursorOffset(call.cursor).val
     IN \A k \in 1..Len(call.result.items) :
          call.result.items[k].status = StatusByLog(h, o + k - 1)

\* A page of a block with a mixed log: success, failed, pending, success where
\* both markers are present, pending where the markers are of another phase
\* or section.
C15_Witness ==
  /\ call.backend = "rpc" /\ call.op = "getBlockTransactions"
  /\ ~call.rejected /\ ~call.io.eventsFail
  /\ call.cursor = None
  /\ Len(call.result.items) = PageSize
  /\ [k \in 1..5 |-> call.result.items[k].status]
       = <<"success", "failed", "pending", "success", "pending">>

\* The heights getTransactionByHash may visit: the MaxScanBlocksByHash newest.
FindWindow == {h \in 0..tip : h > tip - MaxScanBlocksByHash}

\* The heights of the window whose block holds an extrinsic with the hash,
\* letter case apart.
Holders(hash) ==
  {h \in FindWindow :
     \E i \in 1..chain[h + 1].count : ToLowerCase(ExtHash(h, i - 1)) = ToLowerCase(hash)}

\* C16: getTransactionByHash(hash) returns the transaction with that hash
\* (letter case apart) of the newest block that holds one among the
\* min(500, tip + 1) newest, and null when none of them does; it visits at most
\* 500 heights, none below 0, and does not reject.
C16_FindByHashBounded ==
  (call.backend = "rpc" /\ call.op = "getTransactionByHash")
  => /\ ~call.rejected
     /\ call.io.visited <= MaxScanBlocksByHash
     /\ call.io.visited <= tip + 1
     /\ call.io.lowest >= 0
     /\ IF Holders(call.id) = {} THEN call.result = None
        ELSE LET h == CHOOSE x \in Holders(call.id) : \A y \in Holders(call.id) : y <= x
             IN /\ call.result # None
                /\ ToLowerCase(Val(call.result).hash) = ToLowerCase(call.id)
                /\ Val(call.result).blockHeight = Some(h)
                /\ call.io.lowest = h

\* A hash that only the block just outside the bound holds: null after 500
\* heights.
C16_Witness ==
  /\ call.backend = "rpc" /\ call.op = "getTransactionByHash"
  /\ tip >= MaxScanBlocksByHash
  /\ call.id = ExtHash(tip - MaxScanBlocksByHash, 0)
  /\ call.result = None
  /\ call.io.visited = MaxScanBlocksByHash
  /\ call.io.lowest = tip - (MaxScanBlocksByHash - 1)

\* The number of blocks a scan for `want` operations reads: the least number of
\* newest blocks that hold `want` operations, and all the reachable ones when
\* they hold fewer.
BlocksNeeded(want) ==
  LET most == Min(MaxScanBlocks, tip + 1)
      enough == {n \in 0..most : Len(ReachableOps(tip, n)) >= want}
  IN IF enough = {} THEN most ELSE CHOOSE n \in enough : \A m \in enough : n <= m

\* C17: getLatestTransactions(limit) returns the first `limit` operations of
\* the newest-first sequence of the at most 200 newest blocks (all of them when
\* there are fewer), never more than `limit`, reads no block once `limit`
\* operations are accumulated, and reads none below height 0.
C17_LatestTransactions ==
  (call.backend = "rpc" /\ call.op = "getLatestTransactions" /\ ~call.rejected)
  => LET all == ReachableOps(tip, MaxScanBlocks)
     IN /\ Len(call.result) <= call.limit
        /\ Len(call.result) = Min(call.limit, Len(all))
        /\ \A k \in 1..Len(call.result) : call.result[k].hash = all[k]
        /\ call.io.visited = BlocksNeeded(call.limit)
        /\ call.io.visited <= MaxScanBlocks
        /\ call.io.visited = 0 \/ call.io.lowest >= 0

\* A sparse history: the 200 newest blocks hold fewer operations than asked
\* for, all 200 are read and the operations they hold are returned.
C17_Witness ==
  /\ call.backend = "rpc" /\ call.op = "getLatestTransactions" /\ ~call.rejected
  /\ tip >= MaxScanBlocks
  /\ call.limit = PageSize + 5
  /\ Len(call.result) = PageSize
  /\ call.io.visited = MaxScanBlocks
  /\ call.io.lowest = tip - (MaxScanBlocks - 1)

\* C18: getBlocksPage(cursor) at offset o returns the blocks of heights
\* tip - o, tip - o - 1, ... in that order, as many as lie at or above height 0
\* and at most 20, none of negative height; nextCursor is the decimal string
\* of o + 20 iff exactly 20 items were produced, and absent otherwise.
C18_BlocksPageHeights ==
  (/\ call.backend = "rpc" /\ call.op = "getBlocksPage" /\ ~call.rejected
   /\ ~CursorOffset(call.cursor).nan)
  => LET o == CursorOffset(call.cursor).val
         items == call.result.items
     IN /\ Len(items) = Min(PageSize, Max(0, tip - o + 1))
        /\ \A i \in 1..Len(items) : items[i].height = tip - o - (i - 1)
        /\ \A i \in 1..Len(items) : items[i].height >= 0
        /\ \A i \in 1..Len(items) - 1 : items[i].height > items[i + 1].height
        /\ call.result.nextCursor =
             (IF Len(items) = PageSize THEN Some(NumToString(o + PageSize)) ELSE None)

\* The last page of a long chain, reached by following the cursors: fewer
\* than 20 blocks, down to height 0, and no nextCursor.
C18_Witness ==
  /\ call.backend = "rpc" /\ call.op = "getBlocksPage" /\ ~call.rejected
  /\ call.chainCalls > 1
  /\ ~CursorOffset(call.cursor).nan /\ CursorOffset(call.cursor).val > PageSize
  /\ Len(call.result.items) \in 1..(PageSize - 1)
  /\ call.result.items[Len(call.result.items)].height = 0
  /\ call.result.nextCursor = None

\* The list a paged operation of MockProvider pages over: the blocks, the
\* transactions, or the transactions of the block the id resolves to (none
\* when it resolves to no block).
BackingList(p, op, id) ==
  IF op = "getBlocksPage" THEN mockBlocks(p)
  ELSE IF op = "getTransactionsPage" THEN mockTransactions(p)
  ELSE LET holders == {k \in 1..Len(mockBlocks(p)) : mockBlocks(p)[k].hash = id}
           height == IF ~ParseInt(id).nan THEN Some(ParseInt(id).val)
                     ELSE IF holders = {} THEN None
                     ELSE Some(mockBlocks(p)[CHOOSE k \in holders : TRUE].height)
           inBlock(tx) == tx.blockHeight = height
       IN IF height = None THEN <<>> ELSE SelectSeq(mockTransactions(p), inBlock)

\* The cursor is absent or the decimal string of an integer o >= 0.
DecimalCursor(cursor) == cursor = None \/ IsAllDigits(Val(cursor))

\* C19: a paged operation of MockProvider called with a decimal cursor o
\* (0 when absent) over a backing list of N items returns the items at
\* positions o .. min(o + 20, N) of the list, and nextCursor is the decimal
\* string of o + 20 iff o + 20 < N.  On the 100 blocks: the absent cursor
\* gives heights 12345..12326 and "20", "20" gives 12325..12306 and "40",
\* "80" gives 20 items and no nextCursor.
C19_MockPageWindow ==
  (/\ call.backend = "mock"
   /\ call.op \in {"getBlocksPage", "getTransactionsPage", "getBlockTransactions"}
   /\ DecimalCursor(call.cursor))
  => LET list == BackingList(mock(call.inst), call.op, call.id)
         N == Len(list)
         o == IF call.cursor = None THEN 0 ELSE ParseInt(Val(call.cursor)).val
         items == call.result.items
     IN /\ Len(items) = Max(0, Min(o + PageSize, N) - o)
        /\ \A i \in 1..Len(items) : items[i] = list[o + i]
        /\ call.result.nextCursor =
             (IF o + PageSize < N THEN Some(NumToString(o + PageSize)) ELSE None)
        /\ (call.op = "getBlocksPage" /\ o \in {0, 20, 80})
           => /\ Len(items) = 20
              /\ \A i \in 1..20 : items[i].height = 12345 - o - (i - 1)
              /\ call.result.nextCursor =
                   (IF o = 0 THEN Some(<<"2", "0">>)
                    ELSE IF o = 20 THEN Some(<<"4", "0">>) ELSE None)

\* The last page of the blocks asked for directly: cursor "80", the 20 oldest
\* blocks, no nextCursor.
C19_Witness ==
  /\ call.backend = "mock" /\ call.op = "getBlocksPage"
  /\ call.cursor = Some(<<"8", "0">>) /\ call.chainCalls = 1
  /\ Len(call.result.items) = 20
  /\ call.result.items[1].height = 12265
  /\ call.result.nextCursor = None

MappedOps ==
  {"getLatestBlocks", "getBlocksPage", "getLatestTransactions", "getTransactionsPage"}

\* The records an honest indexer sends for the completed call, and the ones
\* of them that carry their mandatory fields.
RecordsSent(c) ==
  LET blocks == c.op \in {"getLatestBlocks", "getBlocksPage"}
      paged == c.op \in {"getBlocksPage", "getTransactionsPage"}
      offset == IF paged THEN Asked(CursorOffset(c.cursor)) ELSE 0
      limit == IF paged THEN PageSize ELSE c.limit
  IN Slice(IF blocks THEN IndexerBlocks ELSE IndexerTxs,
           [nan |-> FALSE, val |-> offset], [nan |-> FALSE, val |-> offset + limit])

CarriesMandatory(op, rec) ==
  /\ "hash" \in DOMAIN rec.v
  /\ op \in {"getLatestBlocks", "getBlocksPage"} => "height" \in DOMAIN rec.v

ItemsOf(c) ==
  IF c.op \in {"getBlocksPage", "getTransactionsPage"} THEN c.result.items ELSE c.result

\* C20: the items an operation returns from an honest indexer's records are,
\* in the order sent, the records that carry their mandatory fields (hash, and
\* height for a block), a block of height 0 included; the others are dropped.
C20_DropsOnlyIncomplete ==
  (/\ call.backend = "http" /\ call.op \in MappedOps
   /\ call.io.answered >= 1 /\ call.io.kind = "honest"
   /\ call.source = "indexer")
  => LET complete(rec) == CarriesMandatory(call.op, rec)
         kept == SelectSeq(RecordsSent(call), complete)
         items == ItemsOf(call)
     IN /\ Len(items) = Len(kept)
        /\ \A k \in 1..Len(items) :
             /\ items[k].hash = kept[k].v.hash
             /\ call.op \in {"getLatestBlocks", "getBlocksPage"}
                => items[k].height = kept[k].v.height

\* C21: under the RPC backend getAddressSummary(addr) returns null for every
\* address without any request to the node, and the address page shows
\* not-found.
C21_RpcAddressUnsupported ==
  (call.backend = "rpc" /\ call.op = "getAddressSummary")
  => /\ ~call.rejected
     /\ call.result = None
     /\ call.io.visited = 0
     /\ call.source = "none"
     /\ AddressDetailPage(call.result) = "notFound"

\* An address summary asked of an RPC-backed instance over a chain that holds
\* operations.
C21_Witness ==
  /\ call.backend = "rpc" /\ call.op = "getAddressSummary"
  /\ call.id = <<"a">>
  /\ chain[tip + 1].count > 0
  /\ call.result = None

\* C22: MockProvider.getAddressSummary(addr) depends on the address alone: the
\* summary a call returned is the one every instance, whenever constructed,
\* returns for that address at any later time, and any two instances agree
\* on every address.
C22_AddressSummaryPure ==
  /\ \A n, m \in 1..NumInstants : \A addr \in AddrInputs :
       MockGetAddressSummary(n, addr) = MockGetAddressSummary(m, addr)
  /\ (call.backend = "mock" /\ call.op = "getAddressSummary")
     => /\ Val(call.result).address = call.id
        /\ \A q \in Instances("mock") :
             MockGetAddressSummary(mock(q), call.id) = call.result

\* A summary returned by one instance, looked at on a later day, with another
\* instance constructed on another day.
C22_Witness ==
  /\ call.backend = "mock" /\ call.op = "getAddressSummary"
  /\ clock > mock(call.inst)
  /\ \E q \in Instances("mock") : mock(q) # mock(call.inst)

\* Candidate k of the probe under way completed with a failure: a transport
\* error, a non-OK status or a GraphQL errors payload.
ProbeFailed(k) == probe.responses[k].fail # "none"

ProbeCompleted(k) == \E j \in 1..Len(probe.seen) : probe.seen[j] = k

\* C23: tryQueries issues its candidates one at a time in list order, the
\* next one only after the one before has completed with a failure; it returns
\* the response of the first candidate that completes without a failure and
\* issues none after it; and the caller falls back to the Mock Generator only
\* when every candidate has been issued and has failed.
C23_SequentialProbe ==
  /\ \A j \in 1..Len(probe.issued) : probe.issued[j] = j
  /\ Len(probe.issued) - Len(probe.seen) \in {0, 1}
  /\ \A j \in 2..Len(probe.issued) : ProbeCompleted(j - 1) /\ ProbeFailed(j - 1)
  /\ \A k \in 1..Len(probe.seen) :
       ~ProbeFailed(k)
       => /\ Len(probe.issued) = k
          /\ probe.at \in {"returned", "done"}
          /\ probe.result.t = probe.responses[k].data.t
  /\ (probe.at = "done" /\ probe.fellBack)
     => /\ Len(probe.issued) = NumCandidates
        /\ \A k \in 1..NumCandidates : ProbeCompleted(k) /\ ProbeFailed(k)

-----------------------------------------------------------------------------
(* Claims about the connection manager: the disconnect handlers            *)

\* The handlers the manager has registered that are still attached: pairs of
\* a handle and a listener on it.
Attached == {<<h, l>> \in (DOMAIN handles) \X (DOMAIN handles) : l \in handles[h].listeners}

\* C24: at most one disconnect handler registered by the connection manager is
\* attached across all the handles it has created.
C24_OneHandlerAttached == Cardinality(Attached) <= 1

\* C28: a disconnect of a handle that is not the cached one leaves the cache
\* as it is.
C28_StaleDisconnectKeepsCache ==
  [][\A h \in DOMAIN handles :
       (/\ IsConnected(h) /\ handles'[h].state = "disconnected"
        /\ apiInstance # None /\ apiInstance # Some(h))
       => apiInstance' = apiInstance]_vars

-----------------------------------------------------------------------------
(* Claims about the mock corpora                                           *)

\* The seeded value of the unconfirmed transaction at index i of an instance
\* constructed at instant `now`, in millionths.
UnconfirmedRand(i, now) ==
  seededRandom(<<"t", "x", "-">> \o NumToString(i) \o <<"-">>
                 \o IsoDate(TxDate(i, None, now) \div 1440))

\* C25: in the transaction corpus of every mock instance, the first 160 have
\* status 'success' with block height and timestamp present, the other 40 have
\* both absent and status 'failed' exactly when the seeded value exceeds 0.9,
\* 'pending' otherwise; so success, a block height and a timestamp go together.
C25_TxCorpusStatus ==
  \A q \in Instances("mock") :
    LET txs == mockTransactions(mock(q)) IN
    /\ Len(txs) = 200
    /\ \A i \in 1..160 :
         /\ txs[i].status = "success"
         /\ txs[i].blockHeight # None
         /\ txs[i].timestamp # None
    /\ \A i \in 161..200 :
         /\ txs[i].blockHeight = None
         /\ txs[i].timestamp = None
         /\ txs[i].status \in {"failed", "pending"}
         /\ txs[i].status = "failed"
            <=> UnconfirmedRand(i - 1, Instants[mock(q)]) > 900000
    /\ \A i \in 1..200 :
         /\ txs[i].status = "success" <=> txs[i].blockHeight # None
         /\ txs[i].blockHeight # None <=> txs[i].timestamp # None

\* An instance whose corpus has a failed and a pending transaction.
C25_Witness ==
  \E q \in Instances("mock") :
    /\ \E i \in 161..200 : mockTransactions(mock(q))[i].status = "failed"
    /\ \E i \in 161..200 : mockTransactions(mock(q))[i].status = "pending"

\* C26: on one mock instance, every corpus block is what a lookup by its hash
\* returns and what a lookup by the decimal of its height returns, and its
\* transactions are the same page whether asked by hash or by height.
C26_BlockRoundTrip ==
  \A q \in Instances("mock") : \A i \in 1..MockBlockCount :
    LET p == mock(q)
        b == mockBlocks(p)[i]
    IN /\ MockGetBlockByHashOrHeight(p, b.hash) = Some(b)
       /\ MockGetBlockByHashOrHeight(p, NumToString(b.height)) = Some(b)
       /\ MockGetBlockTransactions(p, b.hash, None)
          = MockGetBlockTransactions(p, NumToString(b.height), None)

\* The corpus transactions of instance p confirmed in the block at `height`.
TxsInBlock(p, height) ==
  LET inBlock(tx) == tx.blockHeight = Some(height)
  IN SelectSeq(mockTransactions(p), inBlock)

\* The items of getBlockTransactions(id) paged from the start to the end by
\* following nextCursor, at most `left` more calls.
RECURSIVE PagedBlockTxs(_, _, _, _)
PagedBlockTxs(p, id, cursor, left) ==
  LET page == MockGetBlockTransactions(p, id, cursor)
  IN IF page.nextCursor = None \/ left = 0 THEN page.items
     ELSE page.items \o PagedBlockTxs(p, id, page.nextCursor, left - 1)

\* C29: the txCount of every mock block is the number of corpus transactions
\* confirmed at its height, which is the number of items that paging
\* getBlockTransactions(decimal height) to the end returns.
C29_TxCountMatchesCorpus ==
  \A q \in Instances("mock") : \A i \in 1..MockBlockCount :
    LET p == mock(q)
        b == mockBlocks(p)[i]
    IN /\ b.txCount = Len(TxsInBlock(p, b.height))
       /\ b.txCount = Len(PagedBlockTxs(p, NumToString(b.height), None, MockTxCount))

-----------------------------------------------------------------------------
(* Claims about paging a live chain                                        *)

\* C27: when getBlocksPage of the RPC-backed provider is repeated following
\* nextCursor while blocks are finalized between the calls, the pages put end
\* to end are strictly descending in height, so no height is on two pages.
C27_PagesDisjointUnderAdvance ==
  (call.backend = "rpc" /\ call.op = "getBlocksPage" /\ ~call.rejected)
  => \A i \in 1..(Len(call.chainItems) - 1) :
       call.chainItems[i].height > call.chainItems[i + 1].height

-----------------------------------------------------------------------------
(* Claims about the reads of mapExtrinsicsForBlock                         *)

\* C30: when the body of the block was read and the read of its event log
\* fails, getBlockTransactions does not fail: it returns one transaction per
\* extrinsic of the block, in block order, each 'pending' and at the block's
\* height.  When the body cannot be read, the operation rejects.
C30_EventsFailureTolerated ==
  /\ (/\ call.backend = "rpc" /\ call.op = "getBlockTransactions"
      /\ call.io.eventsFail
      /\ RpcHeightOf(call.id) # {}
      /\ ~CursorOffset(call.cursor).nan /\ CursorOffset(call.cursor).val >= 0)
     => LET h == CHOOSE x \in RpcHeightOf(call.id) : TRUE
            o == CursorOffset(call.cursor).val
            n == chain[h + 1].count
        IN /\ ~call.rejected
           /\ Len(call.result.items) = Min(PageSize, Max(0, n - o))
           /\ \A k \in 1..Len(call.result.items) :
                /\ call.result.items[k].hash = ExtHash(h, o + k - 1)
                /\ call.result.items[k].status = "pending"
                /\ call.result.items[k].blockHeight = Some(h)
  /\ (/\ call.backend = "rpc" /\ call.op = "getBlockTransactions"
      /\ IsAllDigits(call.id) /\ ParseInt(call.id).val > tip
      /\ call.io.kind = "reject")
     => call.rejected

\* The second page of a block with a mixed event log, all of it pending
\* because the read of the log failed.
C30_Witness ==
  /\ call.backend = "rpc" /\ call.op = "getBlockTransactions"
  /\ call.io.eventsFail /\ ~call.rejected
  /\ RpcHeightOf(call.id) # {}
  /\ chain[(CHOOSE x \in RpcHeightOf(call.id) : TRUE) + 1].log = "mixed"
  /\ call.cursor = Some(<<"2", "0">>)
  /\ Len(call.result.items) = 1
  /\ call.result.items[1].status = "pending"

=============================================================================
